---- MODULE Spec2Model ----
(***************************************************************************)
(* Verification model of the RobinHood portfolio tracker.                  *)
(*                                                                         *)
(*  SpecRetry    : RateLimitHandler.retry_with_backoff (rate_limit_handler *)
(*                 .py) wrapped around an arbitrary operation and around   *)
(*                 update_options_orders_sheet (options_orders.py), the    *)
(*                 one function of the program that carries the decorator. *)
(*  SpecClassify : simplified_strategy_detection (option_utils.py) applied *)
(*                 to option positions as main.py builds them.             *)
(*  SpecPurity   : several classifications in a row.                       *)
(*  SpecWeekly   : calculate_weekly_premium_stats and the weekly tables    *)
(*                 (options_orders.py).                                    *)
(*  SpecAccounts : the same on the orders of the configured accounts.      *)
(*  SpecPipeline : runs of main() (main.py, config.py).                    *)
(*  SpecJitter, SpecEnrich, SpecTrades, SpecPositions, SpecLayout,         *)
(*  SpecBalances : one call of sleep_with_jitter, enrich_option_orders,    *)
(*                 get_last_50_trades, process_integrated_option_positions,*)
(*                 update_options_orders_sheet, get_account_balances.      *)
(*                                                                         *)
(* Time is counted in ticks of 1/6250 s, so that 0.5 s = 5^5 ticks and the *)
(* factor 1.8 = 9/5 is exact for every delay the bounded runs can reach.   *)
(* A sleep duration is kept in 1/1000 tick (delay * (800 + 4*r) for a      *)
(* random.random() value of r/100).                                        *)
(***************************************************************************)
EXTENDS Integers, Sequences, FiniteSets, TLC

VARIABLES
    \* ---- retry wrapper (rate_limit_handler.py) ----
    handler,        \* the RateLimitHandler: base_delay, max_delay, max_retries
    func,           \* which function the wrapper was applied to
    orders_empty,   \* argument of update_options_orders_sheet: `not orders`
    pc,             \* "idle" | "running" | "returned" | "raised"
    retries,        \* local variable of wrapper
    delay,          \* local variable of wrapper (ticks)
    attempts,       \* number of times func was called in this invocation
    failures,       \* set of the messages func raised in this invocation
    last_error,     \* message of the most recent failure of func
    slept,          \* log of time.sleep: count, last two durations and delays
    func_value,     \* what func returned when it last returned
    result,         \* what the wrapper returned
    exc,            \* message of the exception the wrapper raised
    sheet,          \* the "Options Orders" worksheet, by region
    failed_writes,  \* sheet calls completed by attempts that then failed
    \* ---- strategy classifier (option_utils.py) ----
    account_data,     \* account id -> [cash_for_options, type]
    stock_collateral, \* symbol -> account id -> [total_shares, collateral_shares]
    position,         \* the option position being classified
    strategy,         \* the label returned, or the exception raised
    passed,           \* the arguments as they were when the latest call was made
    first_call,       \* arguments and label of the first classification
    classified_between, \* a call with other arguments was made since the first
    \* ---- weekly premium aggregation (options_orders.py) ----
    now,              \* the clock: today's date in UTC and in local time (day numbers)
    orders,           \* the enriched orders handed to calculate_weekly_premium_stats
    weekly_pc,        \* "orders" | "calculated" | "tabled"
    weekly_result,    \* (sorted_weeks, sorted_accounts) as returned
    table,            \* what create_fixed_weekly_table returned, and for which account
    \* ---- a run of main() (main.py, config.py) ----
    environ,          \* the environment: setting -> value
    upstream,         \* what the brokerage returns: stocks, options, trades, option orders
    run,              \* number of the run of the program
    main_pc,          \* "start" | "aborted" | a stage | "done"
    attempted,        \* the stages entered in this run, in order
    outcome,          \* stage -> attempted, the call that raised, failed, completed
    login_called,     \* r.login was called in this run
    sheets_called,    \* connect_to_sheets_pure was called in this run
    error,            \* message of the exception that ended initialization
    worksheets,       \* stage -> its worksheet
    before_run,       \* the worksheets as this run found them
    faults,           \* number of external calls that raised in this run
    \* ---- one call of a library function (sleep_with_jitter, enrich_option_orders,
    \*      get_last_50_trades, get_account_balances) ----
    call_args,        \* the arguments, and what the brokerage answers during the call
    call_sleeps,      \* the durations passed to time.sleep during the call, in order
    call_result       \* what the call returned; <<>> before the call

retry_vars == <<handler, func, orders_empty, pc, retries, delay, attempts,
                failures, last_error, slept, func_value, result, exc, sheet,
                failed_writes>>
classify_vars == <<account_data, stock_collateral, position, strategy,
                   passed, first_call, classified_between>>
weekly_vars == <<now, orders, weekly_pc, weekly_result, table>>
pipeline_vars == <<environ, upstream, run, main_pc, attempted, outcome, login_called,
                   sheets_called, error, worksheets, before_run, faults>>
call_vars == <<call_args, call_sleeps, call_result>>
vars == <<retry_vars, classify_vars, weekly_vars, pipeline_vars, call_vars>>

\* what an action of one component leaves alone
outside_retry == <<classify_vars, weekly_vars, pipeline_vars, call_vars>>
outside_classify == <<retry_vars, weekly_vars, pipeline_vars, call_vars>>
outside_weekly == <<retry_vars, classify_vars, pipeline_vars, call_vars>>
outside_pipeline == <<retry_vars, classify_vars, weekly_vars, call_vars>>
outside_call == <<retry_vars, classify_vars, weekly_vars, pipeline_vars>>

Min(a, b) == IF a <= b THEN a ELSE b

(***************************************************************************)
(* Exception messages, as sequences of characters.                         *)
(***************************************************************************)
MsgRateLimit == <<"r","a","t","e"," ","l","i","m","i","t">>
MsgQuota     == <<"Q","U","O","T","A">>
Msg429       == <<"H","T","T","P"," ","4","2","9">>
MsgTooMany   == <<"T","o","o"," ","M","a","n","y"," ","R","e","q","u","e","s","t","s">>
MsgExceeded  == <<"L","i","m","i","t"," ","E","x","c","e","e","d","e","d">>
MsgTimeout   == <<"t","i","m","e","o","u","t">>
MsgDashed    == <<"R","a","t","e","-","L","i","m","i","t">>

Msgs == {MsgRateLimit, MsgQuota, Msg429, MsgTooMany, MsgExceeded, MsgTimeout, MsgDashed}

UpperAlpha == <<"A","B","C","D","E","F","G","H","I","J","K","L","M",
                "N","O","P","Q","R","S","T","U","V","W","X","Y","Z">>
LowerAlpha == <<"a","b","c","d","e","f","g","h","i","j","k","l","m",
                "n","o","p","q","r","s","t","u","v","w","x","y","z">>

LowerChar(c) ==
    IF \E i \in 1..Len(UpperAlpha) : UpperAlpha[i] = c
    THEN LowerAlpha[CHOOSE i \in 1..Len(UpperAlpha) : UpperAlpha[i] = c]
    ELSE c

\* str.lower()
lower(s) == [i \in 1..Len(s) |-> LowerChar(s[i])]

\* `x in s` for strings
Contains(s, x) ==
    \E i \in 0..(Len(s) - Len(x)) : SubSeq(s, i + 1, i + Len(x)) = x

Indicators ==
    { <<"q","u","o","t","a">>,
      <<"r","a","t","e"," ","l","i","m","i","t">>,
      <<"4","2","9">>,
      <<"t","o","o"," ","m","a","n","y"," ","r","e","q","u","e","s","t","s">>,
      <<"e","x","c","e","e","d","e","d">> }

error_str_raw(e) == e

\* error_str = str(e).lower()
error_str(e) == lower(e)

is_rate_limit_always(e) == Len(e) >= 0

\* the messages for which any(x in error_str for x in [...]) is true
RateLimitMsgs == {m \in Msgs : \E x \in Indicators : Contains(error_str(m), x)}

\* is_rate_limit = any(x in error_str for x in [...])
is_rate_limit(e) == e \in RateLimitMsgs

(***************************************************************************)
(* Handlers.                                                               *)
(***************************************************************************)
MaxRetriesBound == 3

\* ticks in n half-seconds
HalfSec(n) == n * 3125

BaseDelays == {HalfSec(1), HalfSec(20), HalfSec(40)}    \* 0.5 s, 10 s, 20 s
MaxDelays  == {HalfSec(30)}                             \* 15 s

Handlers ==
    [base_delay : BaseDelays, max_delay : MaxDelays, max_retries : (-1)..MaxRetriesBound]

\* default_handler = RateLimitHandler(base_delay=0.5, max_delay=15.0, max_retries=3)
default_handler == [base_delay |-> HalfSec(1), max_delay |-> HalfSec(30), max_retries |-> 3]

\* random.random() in [0, 1), in hundredths
RandomVals == {0, 50, 99}

CanRetryOffByOne(r) == r <= handler.max_retries + 1

\* retries <= self.max_retries (the loop guard and the retry condition)
CanRetry(r) == r <= handler.max_retries

NextRetriesSkip(r) == r + 2

\* retries += 1
NextRetries(r) == r + 1

\* delay * (0.8 + random.random() * 0.4), in 1/1000 tick
actual_delay(d, rnd) == d * (800 + 4 * rnd)

NextDelayUncapped(d) == (d * 9) \div 5

\* delay = min(delay * 1.8, self.max_delay)
NextDelay(d) == Min((d * 9) \div 5, handler.max_delay)

IntStr(n) ==
    CASE n = -1 -> <<"-","1">>
      [] n = 0 -> <<"0">>
      [] n = 1 -> <<"1">>
      [] n = 2 -> <<"2">>
      [] n = 3 -> <<"3">>
      [] n = 4 -> <<"4">>
      [] OTHER -> <<"n">>

\* f"Max retries ({self.max_retries}) exceeded"
MaxRetriesMsg ==
    <<"M","a","x"," ","r","e","t","r","i","e","s"," ","(">>
        \o IntStr(handler.max_retries)
        \o <<")"," ","e","x","c","e","e","d","e","d">>

NoMsg == <<>>
NoSleep == [count |-> 0, last |-> 0, prev |-> 0, last_delay |-> 0, prev_delay |-> 0]

(***************************************************************************)
(* The wrapped functions.  One execution of func is one outcome: it        *)
(* returns a value or raises a message, the worksheet is left as the       *)
(* calls that completed made it, and writes names those calls.             *)
(***************************************************************************)
Funcs == {"wrapped_func", "update_options_orders_sheet"}
Values == {"v1", "v2"}

Regions == {"history", "Standard", "IRA", "Third"}
WeeklyTables == {"Standard", "IRA", "Third"}
StaleSheet == [r \in Regions |-> "stale"]
EmptySheet == [r \in Regions |-> "empty"]

Returned(v, sh, w) == [ok |-> TRUE, value |-> v, msg |-> NoMsg, sheet |-> sh, writes |-> w]
Raised(m, sh, w) == [ok |-> FALSE, value |-> "None", msg |-> m, sheet |-> sh, writes |-> w]

\* any wrapped operation that does not touch the worksheet
wrapped_func(sh) ==
    {Returned(v, sh, {}) : v \in Values} \cup {Raised(m, sh, {}) : m \in Msgs}

\* the weekly-table loop without its try/except
update_options_orders_sheet_unguarded(sh, empty) ==
    IF empty
    THEN {Returned("None", [sh EXCEPT !["history"] = "placeholder"], {"update_cell"})}
            \cup {Raised(m, sh, {}) : m \in Msgs}
    ELSE {Raised(m, sh, {}) : m \in Msgs}
            \cup {Raised(m, EmptySheet, {"clear"}) : m \in Msgs}
            \cup {Raised(m, [EmptySheet EXCEPT !["history"] = "table"], {"clear", "update"}) : m \in Msgs}
            \cup {Returned("None",
                           [r \in Regions |-> IF r = "history" \/ r \in W THEN "table" ELSE "empty"],
                           {"clear", "update"}) : W \in SUBSET WeeklyTables}

\* update_options_orders_sheet(sheet, orders)
update_options_orders_sheet(sh, empty) ==
    IF empty
    THEN \* sheet.update_cell(1, 1, "No options orders found")
         {Returned("None", [sh EXCEPT !["history"] = "placeholder"], {"update_cell"})}
            \cup {Raised(m, sh, {}) : m \in Msgs}
    ELSE \* sheet.clear() raises
         {Raised(m, sh, {}) : m \in Msgs}
         \* sheet.clear() done; the enrichment or sheet.update(main_table) raises
            \cup {Raised(m, EmptySheet, {"clear"}) : m \in Msgs}
         \* main table written; each weekly table is written or its failure swallowed
            \cup {Returned("None",
                           [r \in Regions |-> IF r = "history" \/ r \in W THEN "table" ELSE "empty"],
                           {"clear", "update"}) : W \in SUBSET WeeklyTables}

\* func(*args, **kwargs)
FuncOutcomes ==
    IF func = "update_options_orders_sheet"
    THEN update_options_orders_sheet(sheet, orders_empty)
    ELSE wrapped_func(sheet)

(***************************************************************************)
(* The wrapper.                                                            *)
(***************************************************************************)
RetryInit ==
    /\ handler \in Handlers
    /\ func = "wrapped_func"
    /\ orders_empty = FALSE
    /\ pc = "idle"
    /\ retries = 0
    /\ delay = 0
    /\ attempts = 0
    /\ failures = {}
    /\ last_error = NoMsg
    /\ slept = NoSleep
    /\ func_value = "None"
    /\ result = "None"
    /\ exc = NoMsg
    /\ sheet = StaleSheet
    /\ failed_writes = {}
    \* no option position is being processed
    /\ account_data = <<>>
    /\ stock_collateral = <<>>
    /\ position = <<>>
    /\ strategy = "None"
    /\ passed = <<>>
    /\ first_call = <<>>
    /\ classified_between = FALSE
    /\ now = [utc |-> 0, local |-> 0]
    /\ orders = <<>>
    /\ weekly_pc = "orders"
    /\ weekly_result = [weekly |-> <<>>, account |-> <<>>]
    /\ table = [account_type |-> "None", rows |-> <<>>, next_row |-> 0]
    /\ environ = <<>>
    /\ upstream = <<>>
    /\ run = 0
    /\ main_pc = "start"
    /\ attempted = <<>>
    /\ outcome = <<>>
    /\ login_called = FALSE
    /\ sheets_called = FALSE
    /\ error = ""
    /\ worksheets = <<>>
    /\ before_run = <<>>
    /\ faults = 0
    /\ call_args = <<>>
    /\ call_sleeps = <<>>
    /\ call_result = <<>>

\* wrapper(*args, **kwargs) is entered: retries = 0, delay = self.base_delay
Enter(f, e) ==
    /\ func' = f
    /\ orders_empty' = e
    /\ pc' = "running"
    /\ retries' = 0
    /\ delay' = handler.base_delay
    /\ attempts' = 0
    /\ failures' = {}
    /\ last_error' = NoMsg
    /\ slept' = NoSleep
    /\ func_value' = "None"
    /\ result' = "None"
    /\ exc' = NoMsg
    /\ failed_writes' = {}
    /\ UNCHANGED handler

\* a call of some decorated operation; the worksheet holds what earlier runs left
CallWrapped ==
    /\ pc # "running"
    /\ Enter("wrapped_func", FALSE)
    /\ sheet' = StaleSheet
    /\ UNCHANGED outside_retry

\* process_options_orders: the worksheet is cleared (or created), then
\* update_options_orders_sheet(options_orders_sheet, all_orders)
CallUpdateSheet ==
    /\ pc # "running"
    /\ \E e \in BOOLEAN : Enter("update_options_orders_sheet", e)
    /\ sheet' = EmptySheet
    /\ UNCHANGED outside_retry

\* try: return func(*args, **kwargs)
AttemptReturns ==
    /\ pc = "running"
    /\ CanRetry(retries)
    /\ \E o \in FuncOutcomes :
        /\ o.ok
        /\ attempts' = attempts + 1
        /\ func_value' = o.value
        /\ result' = o.value
        /\ sheet' = o.sheet
        /\ pc' = "returned"
    /\ UNCHANGED <<handler, func, orders_empty, retries, delay, failures,
                   last_error, slept, exc, failed_writes>>
    /\ UNCHANGED outside_retry

\* except: rate limit and retries left: sleep, grow the delay, loop
AttemptFailsRetry ==
    /\ pc = "running"
    /\ CanRetry(retries)
    /\ \E o \in FuncOutcomes, rnd \in RandomVals :
        /\ ~o.ok
        /\ is_rate_limit(o.msg) /\ CanRetry(NextRetries(retries))
        /\ attempts' = attempts + 1
        /\ failures' = failures \cup {o.msg}
        /\ last_error' = o.msg
        /\ sheet' = o.sheet
        /\ failed_writes' = failed_writes \cup o.writes
        /\ retries' = NextRetries(retries)
        /\ slept' = [count |-> slept.count + 1,
                     last |-> actual_delay(delay, rnd), prev |-> slept.last,
                     last_delay |-> delay, prev_delay |-> slept.last_delay]
        /\ delay' = NextDelay(delay)
    /\ UNCHANGED <<handler, func, orders_empty, pc, func_value, result, exc>>
    /\ UNCHANGED outside_retry

\* except: else: raise
AttemptFailsRaise ==
    /\ pc = "running"
    /\ CanRetry(retries)
    /\ \E o \in FuncOutcomes :
        /\ ~o.ok
        /\ ~(is_rate_limit(o.msg) /\ CanRetry(NextRetries(retries)))
        /\ attempts' = attempts + 1
        /\ failures' = failures \cup {o.msg}
        /\ last_error' = o.msg
        /\ sheet' = o.sheet
        /\ failed_writes' = failed_writes \cup o.writes
        /\ retries' = NextRetries(retries)
        /\ exc' = o.msg
        /\ pc' = "raised"
    /\ UNCHANGED <<handler, func, orders_empty, delay, slept, func_value, result>>
    /\ UNCHANGED outside_retry

\* the loop ends: raise Exception(f"Max retries ({self.max_retries}) exceeded")
MaxRetriesExceeded ==
    /\ pc = "running"
    /\ ~CanRetry(retries)
    /\ exc' = MaxRetriesMsg
    /\ pc' = "raised"
    /\ UNCHANGED <<handler, func, orders_empty, retries, delay, attempts, failures,
                   last_error, slept, func_value, result, sheet, failed_writes>>
    /\ UNCHANGED outside_retry

RetryNext ==
    \/ CallWrapped
    \/ CallUpdateSheet
    \/ AttemptReturns
    \/ AttemptFailsRetry
    \/ AttemptFailsRaise
    \/ MaxRetriesExceeded

SpecRetry ==
    /\ RetryInit
    /\ [][RetryNext]_vars

(***************************************************************************)
(* The strategy classifier and the inputs main.py hands it.  Money is in   *)
(* whole dollars, shares and contracts in units.                           *)
(***************************************************************************)
MaxContracts == 2

\* main_account_id, ira_account_id
Accounts == {"MAIN", "IRA"}
Symbols == {"AAPL", "TSLA"}
StrikeStrs == {"5.0000", "10.0000"}

\* dict.get(key, default)
Get(d, k, default) == IF k \in DOMAIN d THEN d[k] ELSE default

EmptyDict == <<>>

\* float(s) of a string: the number, or ValueError
ParseFloat(s) ==
    CASE s = "5.0000" -> [ok |-> TRUE, val |-> 5]
      [] s = "10.0000" -> [ok |-> TRUE, val |-> 10]
      [] OTHER -> [ok |-> FALSE, val |-> 0]

\* str.upper() on the option types the brokerage and main.py produce
upper(s) ==
    CASE s = "call" -> "CALL"
      [] s = "put" -> "PUT"
      [] s = "n/a" -> "N/A"
      [] OTHER -> s

\* option instrument data: a full instrument, or a reply without its fields
Instruments ==
    [chain_symbol : Symbols, strike_price : StrikeStrs, type : {"call", "put"}]
        \cup {[detail |-> "Not found."]}

\* process_integrated_option_positions: the fields the classifier reads
EnrichedPosition(acct, qty, opt_data) ==
    [account_number |-> acct,
     symbol |-> Get(opt_data, "chain_symbol", "N/A"),
     strike_price |-> Get(opt_data, "strike_price", "N/A"),
     option_type |-> upper(Get(opt_data, "type", "N/A")),
     quantity |-> qty]

\* get_simplified_account_data: one entry per account, zero cash when the fetch fails
CashVals == {0, 890, 900}

AccountEntries(a, ira) ==
    {[cash_for_options |-> c, type |-> IF a = ira THEN "IRA" ELSE "Standard"] : c \in CashVals}
        \cup {[cash_for_options |-> 0, type |-> "Unknown"]}

AccountDatas ==
    UNION {{ad \in [ids -> UNION {AccountEntries(a, "IRA") : a \in ids}] :
                \A a \in ids : ad[a] \in AccountEntries(a, "IRA")} :
           ids \in {{"MAIN"}, {"MAIN", "IRA"}}}

\* get_stock_positions_for_cc_detection: symbol -> account -> shares
HoldingRecs ==
    {[total_shares |-> 100, collateral_shares |-> 0],
     [total_shares |-> 100, collateral_shares |-> 100],
     [total_shares |-> 200, collateral_shares |-> 100]}

SymbolHoldings(ids) ==
    UNION {[held -> HoldingRecs] : held \in (SUBSET ids) \ {{}}}

StockCollaterals(ids) ==
    UNION {{sc \in [syms -> SymbolHoldings(ids)] : TRUE} : syms \in SUBSET Symbols}

CoversStrictly(shares, quantity) == shares > quantity * 100

\* shares >= (quantity * 100)
Covers(shares, quantity) == shares >= quantity * 100

SufficientCashInFull(cash, required_cash) == cash >= required_cash

\* cash_for_options >= required_cash * 0.9
SufficientCash(cash, required_cash) == 10 * cash >= 9 * required_cash

\* simplified_strategy_detection(position, account_data, stock_collateral)
simplified_strategy_detection(pos, ad, sc) ==
    LET symbol == pos.symbol
        option_type == upper(pos.option_type)
        strike_price == ParseFloat(pos.strike_price)
        account_id == pos.account_number
        quantity == pos.quantity
    IN  IF ~strike_price.ok THEN "ValueError"
        ELSE IF option_type = "CALL" /\ symbol \in DOMAIN sc
        THEN LET account_stocks == Get(sc[symbol], account_id, EmptyDict)
                 collateral_shares == Get(account_stocks, "collateral_shares", 0)
                 total_shares == Get(account_stocks, "total_shares", 0)
             IN  IF Covers(collateral_shares, quantity) THEN "Covered Call (CC)"
                 ELSE IF Covers(total_shares, quantity) THEN "Covered Call (CC) - Holdings"
                 ELSE option_type \o " Position"
        ELSE IF option_type = "PUT"
        THEN LET account_info == Get(ad, account_id, EmptyDict)
                 cash_for_options == Get(account_info, "cash_for_options", 0)
                 required_cash == strike_price.val * quantity * 100
             IN  IF SufficientCash(cash_for_options, required_cash)
                 THEN "Cash-Secured Put (CSP)"
                 ELSE option_type \o " Position"
        ELSE option_type \o " Position"

\* simplified_strategy_detection with setdefault in place of get at line 102
detection_call_setdefault(pos, ad, sc) ==
    [label |-> simplified_strategy_detection(pos, ad, sc),
     position |-> pos,
     account_data |-> ad,
     stock_collateral |->
        IF /\ ParseFloat(pos.strike_price).ok
           /\ upper(pos.option_type) = "CALL"
           /\ pos.symbol \in DOMAIN sc
           /\ pos.account_number \notin DOMAIN sc[pos.symbol]
        THEN [sc EXCEPT ![pos.symbol] = (pos.account_number :> EmptyDict) @@ @]
        ELSE sc]

\* one call of simplified_strategy_detection: the value it returns or the
\* exception it raises, and its three arguments as the call leaves them
\* (the body reads them with dict.get and `in` only, and assigns to locals)
detection_call(pos, ad, sc) ==
    [label |-> simplified_strategy_detection(pos, ad, sc),
     position |-> pos,
     account_data |-> ad,
     stock_collateral |-> sc]

NoPosition == <<>>
NoCall == <<>>

ClassifyInit ==
    /\ account_data \in AccountDatas
    /\ stock_collateral \in StockCollaterals(DOMAIN account_data)
    /\ position = NoPosition
    /\ strategy = "None"
    /\ passed = NoCall
    /\ first_call = NoCall
    /\ classified_between = FALSE
    /\ now = [utc |-> 0, local |-> 0]
    /\ orders = <<>>
    /\ weekly_pc = "orders"
    /\ weekly_result = [weekly |-> <<>>, account |-> <<>>]
    /\ table = [account_type |-> "None", rows |-> <<>>, next_row |-> 0]
    /\ environ = <<>>
    /\ upstream = <<>>
    /\ run = 0
    /\ main_pc = "start"
    /\ attempted = <<>>
    /\ outcome = <<>>
    /\ login_called = FALSE
    /\ sheets_called = FALSE
    /\ error = ""
    /\ worksheets = <<>>
    /\ before_run = <<>>
    /\ faults = 0
    /\ call_args = <<>>
    /\ call_sleeps = <<>>
    /\ call_result = <<>>
    \* the decorator's handler is at rest
    /\ handler = default_handler
    /\ func = "wrapped_func"
    /\ orders_empty = FALSE
    /\ pc = "idle"
    /\ retries = 0
    /\ delay = 0
    /\ attempts = 0
    /\ failures = {}
    /\ last_error = NoMsg
    /\ slept = NoSleep
    /\ func_value = "None"
    /\ result = "None"
    /\ exc = NoMsg
    /\ sheet = StaleSheet
    /\ failed_writes = {}

\* position['strategy_type'] = simplified_strategy_detection(position, account_data, stock_collateral)
ClassifyPosition(pos) ==
    LET call == detection_call(pos, account_data, stock_collateral)
        args == [position |-> pos, account_data |-> account_data,
                 stock_collateral |-> stock_collateral]
    IN  /\ passed' = args
        /\ position' = call.position
        /\ account_data' = call.account_data
        /\ stock_collateral' = call.stock_collateral
        /\ strategy' = call.label
        /\ IF strategy = "None"
           THEN /\ first_call' = [args |-> args, label |-> call.label]
                /\ classified_between' = FALSE
           ELSE /\ first_call' = first_call
                /\ classified_between' = (classified_between \/ args # first_call.args)

Classify ==
    /\ position = NoPosition
    /\ \E acct \in DOMAIN account_data, qty \in 0..MaxContracts, opt_data \in Instruments :
        ClassifyPosition(EnrichedPosition(acct, qty, opt_data))
    /\ UNCHANGED outside_classify

ClassifyNext == Classify

SpecClassify ==
    /\ ClassifyInit
    /\ [][ClassifyNext]_vars

(***************************************************************************)
(* The loop of main.py over all positions of a run: the classifier is      *)
(* called once per position with the same two lookups.                     *)
(***************************************************************************)
PurityInit ==
    /\ account_data \in {ad \in AccountDatas :
            /\ DOMAIN ad = Accounts
            /\ \A a \in Accounts : ad[a].type # "Unknown" /\ ad[a].cash_for_options = 900}
    /\ stock_collateral \in {sc \in StockCollaterals({"IRA"}) : DOMAIN sc \subseteq {"AAPL"}}
    /\ position = NoPosition
    /\ strategy = "None"
    /\ passed = NoCall
    /\ first_call = NoCall
    /\ classified_between = FALSE
    /\ now = [utc |-> 0, local |-> 0]
    /\ orders = <<>>
    /\ weekly_pc = "orders"
    /\ weekly_result = [weekly |-> <<>>, account |-> <<>>]
    /\ table = [account_type |-> "None", rows |-> <<>>, next_row |-> 0]
    /\ environ = <<>>
    /\ upstream = <<>>
    /\ run = 0
    /\ main_pc = "start"
    /\ attempted = <<>>
    /\ outcome = <<>>
    /\ login_called = FALSE
    /\ sheets_called = FALSE
    /\ error = ""
    /\ worksheets = <<>>
    /\ before_run = <<>>
    /\ faults = 0
    /\ call_args = <<>>
    /\ call_sleeps = <<>>
    /\ call_result = <<>>
    /\ handler = default_handler
    /\ func = "wrapped_func"
    /\ orders_empty = FALSE
    /\ pc = "idle"
    /\ retries = 0
    /\ delay = 0
    /\ attempts = 0
    /\ failures = {}
    /\ last_error = NoMsg
    /\ slept = NoSleep
    /\ func_value = "None"
    /\ result = "None"
    /\ exc = NoMsg
    /\ sheet = StaleSheet
    /\ failed_writes = {}

\* the next iteration of `for position in all_option_positions`
ClassifyNextPosition ==
    /\ strategy # "None"
    /\ \E acct \in Accounts, qty \in 0..MaxContracts, opt_data \in Instruments :
        ClassifyPosition(EnrichedPosition(acct, qty, opt_data))
    /\ UNCHANGED outside_classify

PurityNext ==
    \/ Classify
    \/ ClassifyNextPosition

SpecPurity ==
    /\ PurityInit
    /\ [][PurityNext]_vars

(***************************************************************************)
(* Weekly premium aggregation.  A date is a day number counted from        *)
(* Monday 2025-11-03; the text 'YYYY-MM-DD' of a date is the tuple         *)
(* <<Y, M, D>>, compared as the zero-padded text compares.  Money is in    *)
(* cents.                                                                  *)
(***************************************************************************)
MaxOrders == 2

\* weeks_back=8
WeeksBack == 8
\* weeks_to_show=8
WeeksToShow == 8

CalendarDays == 0..89

\* strftime('%Y-%m-%d')
strftime(day) ==
    IF day <= 27 THEN <<2025, 11, day + 3>>
    ELSE IF day <= 58 THEN <<2025, 12, day - 27>>
    ELSE <<2026, 1, day - 58>>

\* datetime.fromisoformat(date_str.replace('Z', '+00:00'))
fromisoformat(date_str) == CHOOSE day \in CalendarDays : strftime(day) = date_str

\* datetime.weekday(): Monday is 0
weekday(day) == day % 7

\* comparison of two 'YYYY-MM-DD' texts
StrLess(a, b) ==
    \/ a[1] < b[1]
    \/ a[1] = b[1] /\ a[2] < b[2]
    \/ a[1] = b[1] /\ a[2] = b[2] /\ a[3] < b[3]

Digits == <<"0","1","2","3","4","5","6","7","8","9">>

RECURSIVE DecStr(_)
\* the decimal digits of a natural number
DecStr(n) == IF n < 10 THEN <<Digits[n + 1]>> ELSE DecStr(n \div 10) \o <<Digits[(n % 10) + 1]>>

\* f"${x:.2f}" for an amount of x = cents / 100
FormatMoney(cents) ==
    LET a == IF cents < 0 THEN -cents ELSE cents
    IN  <<"$">> \o (IF cents < 0 THEN <<"-">> ELSE <<>>)
            \o DecStr(a \div 100) \o <<".">>
            \o <<Digits[((a % 100) \div 10) + 1], Digits[(a % 10) + 1]>>

\* the clock of a run: a Wednesday, and a Monday (UTC) that is still Sunday locally
Nows == {[utc |-> 65, local |-> 65], [utc |-> 63, local |-> 62]}

DirCredit == <<"c","r","e","d","i","t">>
DirDebit  == <<"d","e","b","i","t">>
Directions == {DirCredit, DirDebit}

\* is_sell = 'sell' in direction or 'credit' in direction
SellDirections ==
    {d \in Directions : Contains(lower(d), <<"s","e","l","l">>) \/ Contains(lower(d), DirCredit)}

\* is_buy = 'buy' in direction or 'debit' in direction
BuyDirections ==
    {d \in Directions : Contains(lower(d), <<"b","u","y">>) \/ Contains(lower(d), DirDebit)}

\* account_mapping = {'5QU52702': 'Standard', '519517908': 'IRA', '410351639': 'Third'}
account_mapping ==
    [id \in {"5QU52702", "519517908", "410351639"} |->
        CASE id = "5QU52702" -> "Standard"
          [] id = "519517908" -> "IRA"
          [] id = "410351639" -> "Third"]

\* enriched orders: filled ones of the trailing window (created on the cut-off
\* day or today) and, for an account the mapping does not know, a cancelled
\* and a filled one of today and of the day before the cut-off
OrdersAt(today) ==
    [state : {"filled"},
     created_at : {strftime(today - 7 * WeeksBack), strftime(today)},
     account_id : {"5QU52702", "519517908"},
     total_premium : {0, 5000, 10000},
     direction : Directions]
    \cup
    [state : {"cancelled", "filled"},
     created_at : {strftime(today - 7 * WeeksBack - 1), strftime(today)},
     account_id : {"ABC123"},
     total_premium : {10000},
     direction : {DirCredit}]

OrderLists(today) == UNION {[1..n -> OrdersAt(today)] : n \in 0..MaxOrders}

ZeroStats == [premium |-> 0, btc_premium |-> 0, count |-> 0]

NetPremiumSummed(stats) == stats.premium + stats.btc_premium

\* stats['net_premium'] = stats['premium'] - stats['btc_premium']
NetPremium(stats) == stats.premium - stats.btc_premium

WithNet(stats) ==
    [premium |-> stats.premium, btc_premium |-> stats.btc_premium,
     count |-> stats.count, net_premium |-> NetPremium(stats)]

\* an entry after one more order: the count, and the premium on the side of
\* the order's direction
Counted(st, premium, is_sell, is_buy) ==
    [st EXCEPT !.count = @ + 1,
               !.premium = IF is_sell THEN @ + premium ELSE @,
               !.btc_premium = IF ~is_sell /\ is_buy THEN @ + premium ELSE @]

add_to_account_stats_sold_only(as, account_type, week_key, premium, is_sell, is_buy) ==
    [as EXCEPT ![account_type][week_key] = Counted(@, premium, is_sell, FALSE)]

\* the three statements on account_stats[account_type][week_key]
add_to_account_stats(as, account_type, week_key, premium, is_sell, is_buy) ==
    [as EXCEPT ![account_type][week_key] = Counted(@, premium, is_sell, is_buy)]

\* one iteration of `for order in orders` on the two dictionaries
AddOrder(order, acc, cutoff_date) ==
    IF order.state # "filled" THEN acc
    ELSE LET dt == fromisoformat(order.created_at)
         IN  IF dt < cutoff_date THEN acc
             ELSE LET week_start == dt - weekday(dt)
                      week_key == strftime(week_start)
                      account_type == Get(account_mapping, order.account_id, "Unknown")
                      ws == IF week_key \in DOMAIN acc.weekly THEN acc.weekly
                            ELSE (week_key :> ZeroStats) @@ acc.weekly
                      as1 == IF account_type \in DOMAIN acc.account THEN acc.account
                             ELSE (account_type :> EmptyDict) @@ acc.account
                      as == IF week_key \in DOMAIN as1[account_type] THEN as1
                            ELSE [as1 EXCEPT ![account_type] = (week_key :> ZeroStats) @@ @]
                      premium == order.total_premium
                      is_sell == order.direction \in SellDirections
                      is_buy == order.direction \in BuyDirections
                  IN  IF premium <= 0 THEN [weekly |-> ws, account |-> as]
                      ELSE [weekly |-> [ws EXCEPT ![week_key] =
                                           Counted(@, premium, is_sell, is_buy)],
                            account |-> add_to_account_stats(as, account_type, week_key,
                                                             premium, is_sell, is_buy)]

RECURSIVE Aggregate(_, _, _)
Aggregate(os, acc, cutoff_date) ==
    IF os = <<>> THEN acc
    ELSE LET next == AddOrder(Head(os), acc, cutoff_date)
         IN  \* an order that is skipped leaves the dictionaries as they are
             IF next = acc THEN Aggregate(Tail(os), acc, cutoff_date)
             ELSE Aggregate(Tail(os), next, cutoff_date)

RECURSIVE SortedItems(_)
\* sorted(d.items(), key=lambda x: x[0], reverse=True)
SortedItems(d) ==
    IF DOMAIN d = {} THEN <<>>
    ELSE LET k == CHOOSE k \in DOMAIN d : \A j \in DOMAIN d : ~StrLess(k, j)
         IN  <<<<k, d[k]>>>> \o SortedItems([j \in DOMAIN d \ {k} |-> d[j]])

\* calculate_weekly_premium_stats(orders, weeks_back)
calculate_weekly_premium_stats(os, weeks_back, today) ==
    LET cutoff_date == today - 7 * weeks_back
        acc == Aggregate(os, [weekly |-> EmptyDict, account |-> EmptyDict], cutoff_date)
        weekly_stats == [w \in DOMAIN acc.weekly |-> WithNet(acc.weekly[w])]
        account_stats == [a \in DOMAIN acc.account |->
                             [w \in DOMAIN acc.account[a] |-> WithNet(acc.account[a][w])]]
    IN  [weekly |-> SortedItems(weekly_stats),
         account |-> [a \in DOMAIN account_stats |-> SortedItems(account_stats[a])]]

WeekStartOffsetSkipCurrent(today, i) == weekday(today) + ((i + 1) * 7)

\* today.weekday() + (i * 7)
WeekStartOffset(today, i) == weekday(today) + (i * 7)

\* create_fixed_weekly_table(account_type, account_stats, start_row, weeks_to_show)
create_fixed_weekly_table(account_type, account_stats, start_row, weeks_to_show, today) ==
    LET Row(i) ==
            LET week_start == today - WeekStartOffset(today, i)
                week_key == strftime(week_start)
                found == IF account_type \in DOMAIN account_stats
                         THEN {j \in 1..Len(account_stats[account_type]) :
                                   account_stats[account_type][j][1] = week_key}
                         ELSE {}
                week_stats == account_stats[account_type][CHOOSE j \in found :
                                                              \A l \in found : j <= l][2]
            IN  IF found # {}
                THEN <<week_key, FormatMoney(week_stats.premium),
                       FormatMoney(week_stats.btc_premium), FormatMoney(week_stats.net_premium)>>
                ELSE <<week_key, FormatMoney(0), FormatMoney(0), FormatMoney(0)>>
        table_data == << <<account_type \o " Weekly Premium Summary">>,
                         <<"Week", "Total Premium", "BTC Premium", "Net Premium">> >>
                      \o [i \in 1..weeks_to_show |-> Row(i - 1)]
    IN  [account_type |-> account_type, rows |-> table_data,
         next_row |-> start_row + Len(table_data) + 2]

\* account_positions = {'Standard': 25, 'IRA': 36, 'Third': 47}
account_positions ==
    [a \in {"Standard", "IRA", "Third"} |->
        CASE a = "Standard" -> 25 [] a = "IRA" -> 36 [] a = "Third" -> 47]

WeeklyInit ==
    /\ now \in Nows
    /\ orders \in OrderLists(now.utc)
    /\ weekly_pc = "orders"
    /\ weekly_result = [weekly |-> <<>>, account |-> <<>>]
    /\ table = [account_type |-> "None", rows |-> <<>>, next_row |-> 0]
    /\ environ = <<>>
    /\ upstream = <<>>
    /\ run = 0
    /\ main_pc = "start"
    /\ attempted = <<>>
    /\ outcome = <<>>
    /\ login_called = FALSE
    /\ sheets_called = FALSE
    /\ error = ""
    /\ worksheets = <<>>
    /\ before_run = <<>>
    /\ faults = 0
    /\ call_args = <<>>
    /\ call_sleeps = <<>>
    /\ call_result = <<>>
    /\ handler = default_handler
    /\ func = "wrapped_func"
    /\ orders_empty = FALSE
    /\ pc = "idle"
    /\ retries = 0
    /\ delay = 0
    /\ attempts = 0
    /\ failures = {}
    /\ last_error = NoMsg
    /\ slept = NoSleep
    /\ func_value = "None"
    /\ result = "None"
    /\ exc = NoMsg
    /\ sheet = StaleSheet
    /\ failed_writes = {}
    /\ account_data = <<>>
    /\ stock_collateral = <<>>
    /\ position = <<>>
    /\ strategy = "None"
    /\ passed = <<>>
    /\ first_call = <<>>
    /\ classified_between = FALSE

\* weekly_stats, account_stats = calculate_weekly_premium_stats(enriched_orders)
CalculateWeeklyStats ==
    /\ weekly_pc = "orders"
    /\ weekly_result' = calculate_weekly_premium_stats(orders, WeeksBack, now.utc)
    /\ weekly_pc' = "calculated"
    /\ UNCHANGED <<now, orders, table>>
    /\ UNCHANGED outside_weekly

\* table_data, next_row = create_fixed_weekly_table(account_type, account_stats, start_row)
CreateWeeklyTable ==
    /\ weekly_pc = "calculated"
    /\ \E account_type \in DOMAIN account_positions :
        table' = create_fixed_weekly_table(account_type, weekly_result.account,
                                           account_positions[account_type], WeeksToShow,
                                           now.local)
    /\ weekly_pc' = "tabled"
    /\ UNCHANGED <<now, orders, weekly_result>>
    /\ UNCHANGED outside_weekly

WeeklyNext ==
    \/ CalculateWeeklyStats
    \/ CreateWeeklyTable

SpecWeekly ==
    /\ WeeklyInit
    /\ [][WeeklyNext]_vars

(***************************************************************************)
(* A run of main(): initialization, then the five reporting stages, each   *)
(* writing its own worksheet.  Every run is a new process; only the        *)
(* spreadsheet outlives it.  IRA_ACCOUNT is not set.  A worksheet is what  *)
(* is left of its contents from before the first run (prior) overlaid by   *)
(* the rows written since, keyed by <<row, column>> of their first cell.   *)
(* An external call of a stage may raise: fault k means that the k-th      *)
(* call of the stage raises, 0 that none does.                             *)
(***************************************************************************)
Runs == 2
MaxRecords == 2
MaxFaults == 1

RECURSIVE Str(_)
\* the text of a sequence of characters
Str(chars) == IF chars = <<>> THEN "" ELSE Head(chars) \o Str(Tail(chars))

\* f"{value:.2f}" of a non-negative amount
Fixed2(cents) == Str(Tail(FormatMoney(cents)))

\* f"{(value / total) * 100:.2f}%"
FormatPct(value, total) == Fixed2((value * 10000) \div total) \o "%"

required_vars_short == <<"MAIN_ACCOUNT", "SPREADSHEET_NAME">>

\* required_vars
required_vars == <<"ROBINHOOD_USER", "ROBINHOOD_PASS", "MAIN_ACCOUNT", "SPREADSHEET_NAME">>

\* os.environ after load_dotenv(): each required setting unset, empty or set
Environs ==
    UNION {[names -> {"", "value"}] :
              names \in SUBSET {"ROBINHOOD_USER", "ROBINHOOD_PASS", "MAIN_ACCOUNT",
                                "SPREADSHEET_NAME"}}

\* os.getenv(var), with None as ""
getenv(env, var) == IF var \in DOMAIN env THEN env[var] ELSE ""

RECURSIVE missing_vars(_, _)
\* for var in required_vars: if not os.getenv(var): missing_vars.append(var)
missing_vars(env, vs) ==
    IF vs = <<>> THEN <<>>
    ELSE (IF getenv(env, Head(vs)) = "" THEN <<Head(vs)>> ELSE <<>>)
             \o missing_vars(env, Tail(vs))

RECURSIVE Join(_)
\* ', '.join(names)
Join(names) ==
    IF names = <<>> THEN ""
    ELSE IF Len(names) = 1 THEN names[1]
    ELSE names[1] \o ", " \o Join(Tail(names))

\* load_config(): the configuration, or the ValueError it raises
load_config(env) ==
    LET missing == missing_vars(env, required_vars)
    IN  IF missing # <<>>
        THEN [raised |-> TRUE,
              error |-> "Missing required environment variables: " \o Join(missing),
              account_id |-> ""]
        ELSE [raised |-> FALSE, error |-> "", account_id |-> getenv(env, "MAIN_ACCOUNT")]

StageNames == <<"balances", "stocks", "orders", "positions", "trades">>
StageSet == {StageNames[i] : i \in 1..Len(StageNames)}

\* the statement that follows the try/except of a stage in main()
NextStage(stage) ==
    CASE stage = "balances" -> "stocks"
      [] stage = "stocks" -> "orders"
      [] stage = "orders" -> "positions"
      [] stage = "positions" -> "trades"
      [] stage = "trades" -> "done"

AfterStageAbortOnRaise(stage, raised) == IF raised THEN "done" ELSE NextStage(stage)

\* except Exception as e: print(...), and main() goes on
AfterStage(stage, raised) == NextStage(stage)

\* ---- gspread worksheets ----
PriorSheet == [prior |-> TRUE, cells |-> <<>>]

\* worksheet.clear()
sheet_clear(ws) == [prior |-> FALSE, cells |-> <<>>]

LastRow(ws) ==
    IF DOMAIN ws.cells = {} THEN 0
    ELSE CHOOSE r \in {k[1] : k \in DOMAIN ws.cells} : \A k \in DOMAIN ws.cells : k[1] <= r

sheet_append(ws, values, row) ==
    [ws EXCEPT !.cells =
        [k \in {<<LastRow(ws) + i, 1>> : i \in 1..Len(values)} |-> values[k[1] - LastRow(ws)]] @@ @]

\* worksheet.update(values=values, range_name="A<row>")
sheet_update(ws, values, row) ==
    [ws EXCEPT !.cells =
        [k \in {<<row + i - 1, 1>> : i \in 1..Len(values)} |-> values[k[1] - row + 1]] @@ @]

\* worksheet.update_cell(row, col, value)
sheet_update_cell(ws, row, col, value) ==
    [ws EXCEPT !.cells = (<<row, col>> :> <<value>>) @@ @]

CallWorksheet == [op |-> "worksheet"]
CallClear == [op |-> "clear"]
CallFetch == [op |-> "fetch"]
CallFormat == [op |-> "format"]
CallUpdate(values, row) == [op |-> "update", values |-> values, row |-> row]
CallUpdateCell(row, col, value) == [op |-> "update_cell", row |-> row, col |-> col, value |-> value]

ApplyCall(ws, call) ==
    CASE call.op = "clear" -> sheet_clear(ws)
      [] call.op = "update" -> sheet_update(ws, call.values, call.row)
      [] call.op = "update_cell" -> sheet_update_cell(ws, call.row, call.col, call.value)
      [] OTHER -> ws

RECURSIVE ApplyCalls(_, _, _)
\* the worksheet after the first n calls
ApplyCalls(ws, calls, n) ==
    IF n = 0 THEN ws ELSE ApplyCall(ApplyCalls(ws, calls, n - 1), calls[n])

RECURSIVE SortDesc(_)
\* sorted(items, key=..., reverse=True): stable
SortDesc(items) ==
    IF items = <<>> THEN <<>>
    ELSE LET rest == SortDesc(Tail(items))
             n == Cardinality({j \in 1..Len(rest) : rest[j].key > Head(items).key})
         IN  SubSeq(rest, 1, n) \o <<Head(items)>> \o SubSeq(rest, n + 1, Len(rest))

Lists(kinds) == UNION {[1..n -> kinds] : n \in 0..MaxRecords}

\* ---- upstream brokerage data ----
\* r.get_open_stock_positions: the position, and whether its instrument can be fetched
StockKinds ==
    {[symbol |-> "AAPL", instrument |-> "ok"],
     [symbol |-> "TSLA", instrument |-> "ok"],
     [symbol |-> "AAPL", instrument |-> "error"]}

\* r.get_open_option_positions with what get_option_data_batch finds for the
\* option: instrument and market data, or {} for both (fetched = FALSE)
OptionKinds ==
    {[quantity |-> 1, fetched |-> TRUE,
      opt_data |-> [chain_symbol |-> "AAPL", strike_price |-> "5.0000", type |-> "call"]],
     [quantity |-> 1, fetched |-> FALSE,
      opt_data |-> [chain_symbol |-> "AAPL", strike_price |-> "5.0000", type |-> "call"]],
     [quantity |-> 1, fetched |-> TRUE, opt_data |-> [detail |-> "Not found."]]}

\* r.get_all_stock_orders: filled orders, by day of creation
TradeKinds ==
    {[date |-> 1, symbol |-> "AAPL", instrument |-> "ok"],
     [date |-> 2, symbol |-> "TSLA", instrument |-> "error"]}

DefaultUpstream ==
    [stocks |-> <<[symbol |-> "AAPL", instrument |-> "ok"]>>,
     options |-> <<[quantity |-> 1, fetched |-> TRUE,
                    opt_data |-> [chain_symbol |-> "AAPL", strike_price |-> "5.0000",
                                  type |-> "call"]]>>,
     trades |-> <<[date |-> 1, symbol |-> "AAPL", instrument |-> "ok"]>>,
     orders |-> <<[state |-> "filled", account_id |-> "5QU52702"]>>]

Upstreams ==
    {[DefaultUpstream EXCEPT !.stocks = l] : l \in Lists(StockKinds)}
        \cup {[DefaultUpstream EXCEPT !.options = l] : l \in Lists(OptionKinds)}
        \cup {[DefaultUpstream EXCEPT !.trades = l] : l \in Lists(TradeKinds)}
        \cup {[DefaultUpstream EXCEPT !.orders = <<>>]}

\* r.get_latest_price, in cents
LatestPrice(symbol) == IF symbol = "AAPL" THEN 30000 ELSE 10000

\* phoenix total_equity, in cents
TotalEquity == [cents |-> 100000]

\* what get_account_balances returns for the one account, in cents
account_balances ==
    [total_equity |-> 100000, total_cash |-> 20000, cash_for_options_collateral |-> 5000,
     available_cash |-> 15000, unsettled_funds |-> 0,
     by_account |-> [Standard |-> [equity |-> 100000, cash |-> 20000,
                                   options_collateral |-> 5000, available_cash |-> 15000,
                                   unsettled_funds |-> 0]]]

\* ---- stage 1: update_account_balance_sheet ----
AccountBlock(title, bal) ==
    << <<title>>,
       <<"Equity", Str(FormatMoney(Get(bal, "equity", 0)))>>,
       <<"Cash", Str(FormatMoney(Get(bal, "cash", 0)))>>,
       <<"Cash for Options Collateral", Str(FormatMoney(Get(bal, "options_collateral", 0)))>>,
       <<"Available Cash", Str(FormatMoney(Get(bal, "available_cash", 0)))>>,
       <<"Unsettled Funds", Str(FormatMoney(Get(bal, "unsettled_funds", 0)))>>,
       <<"Total", Str(FormatMoney(Get(bal, "equity", 0)))>>,
       <<"">>, <<"">>, <<"">> >>

BalancesCalls(current_date) ==
    LET b == account_balances
        summary_data ==
            << <<"Account Balances">>,
               <<"Last Updated: " \o current_date>>,
               <<"">>,
               <<"Total Equity", Str(FormatMoney(b.total_equity))>>,
               <<"Total Cash (Including CSP Collateral)", Str(FormatMoney(b.total_cash))>>,
               <<"Cash for Options Collateral (CSPs)",
                 Str(FormatMoney(b.cash_for_options_collateral))>>,
               <<"Available Cash", Str(FormatMoney(b.available_cash))>>,
               <<"Unsettled Funds", Str(FormatMoney(b.unsettled_funds))>>,
               <<"Total Account Value", Str(FormatMoney(b.total_equity))>>,
               <<"">>,
               <<"Earnings Calculator: TEMPORARILY DISABLED">>,
               <<"">> >>
        crypto_balance == Get(b.by_account, "Crypto", EmptyDict)
        crypto_data ==
            << <<"Crypto Account">>,
               <<"Equity", Str(FormatMoney(Get(crypto_balance, "equity", 0)))>>,
               <<"Total", Str(FormatMoney(Get(crypto_balance, "equity", 0)))>>,
               <<"">>, <<"">>, <<"">> >>
        earnings_disabled_data ==
            << <<"Monthly Earnings Summary">>,
               <<"Earnings Calculator Temporarily Disabled">>,
               <<"Will be re-enabled in a future update">>,
               <<"">>, <<"">> >>
    IN  <<CallWorksheet, CallClear,
          CallUpdate(summary_data, 1),
          CallUpdate(AccountBlock("Standard Account", Get(b.by_account, "Standard", EmptyDict)), 14),
          CallUpdate(AccountBlock("IRA Account", Get(b.by_account, "IRA", EmptyDict)), 25),
          CallUpdate(AccountBlock("Third Account", Get(b.by_account, "Third", EmptyDict)), 36),
          CallUpdate(crypto_data, 47),
          CallUpdate(earnings_disabled_data, 54)>>

\* ---- stage 2: process_stock_positions, process_all_positions ----
StockRow(p) ==
    IF p.instrument = "ok"
    THEN <<"Main", p.symbol, Fixed2(LatestPrice(p.symbol)),
           FormatPct(LatestPrice(p.symbol), TotalEquity.cents)>>
    ELSE <<"Main", "Error", "0.00", "0.00%">>

StockCalls(stocks) ==
    LET items == [i \in 1..Len(stocks) |->
                     [key |-> IF stocks[i].instrument = "ok"
                              THEN (LatestPrice(stocks[i].symbol) * 10000) \div TotalEquity.cents
                              ELSE 0,
                      row |-> StockRow(stocks[i])]]
        sorted == SortDesc(items)
        rows == << <<"Stock Positions">>,
                   <<"Total Portfolio Value: " \o Str(FormatMoney(TotalEquity.cents))>>,
                   <<"">>,
                   <<"Account", "Symbol", "Current Value", "Allocation %">> >>
                \o [i \in 1..Len(sorted) |-> sorted[i].row]
    IN  <<CallWorksheet, CallClear, CallFetch>>
        \o (IF stocks = <<>>
            THEN <<CallUpdateCell(1, 1, "No positions found")>>
            ELSE <<CallUpdateCell(1, 10, "Total Portfolio Value: "
                                             \o Str(FormatMoney(TotalEquity.cents))),
                   CallUpdate(rows, 1), CallFormat>>)

\* ---- stage 4: process_integrated_option_positions, update_option_positions_sheet ----
PipelineAccountData == [MAIN |-> [cash_for_options |-> 900, type |-> "Standard"]]
PipelineCollateral == [AAPL |-> [MAIN |-> [total_shares |-> 100, collateral_shares |-> 100]]]

\* current_price * quantity * 100 at a mark of $1.00, in cents
OptionValue(p) == 100 * p.quantity * 100

OptionRow(p) ==
    LET pos == EnrichedPosition("MAIN", p.quantity, p.opt_data)
    IN  <<"Main", pos.symbol, pos.strike_price, pos.option_type,
          simplified_strategy_detection(pos, PipelineAccountData, PipelineCollateral),
          FormatPct(OptionValue(p), TotalEquity.cents)>>

\* the loop over combined_positions: positions without data are skipped, and
\* an exception of the classifier leaves the loop and the function
EnrichRaises(options) ==
    \E i \in 1..Len(options) :
        /\ options[i].fetched
        /\ simplified_strategy_detection(
               EnrichedPosition("MAIN", options[i].quantity, options[i].opt_data),
               PipelineAccountData, PipelineCollateral) = "ValueError"

OptionCalls(options) ==
    LET kept == SelectSeq(options, LAMBDA p : p.fetched)
        items == [i \in 1..Len(kept) |->
                     [key |-> (OptionValue(kept[i]) * 10000) \div TotalEquity.cents,
                      row |-> OptionRow(kept[i])]]
        sorted == SortDesc(items)
        rows == << <<"Option Positions">>,
                   <<"Total Portfolio Value: " \o Str(FormatMoney(TotalEquity.cents))>>,
                   <<"">>,
                   <<"Account", "Symbol", "Strike Price", "Option Type", "Strategy Type",
                     "Allocation %">> >>
                \o [i \in 1..Len(sorted) |-> sorted[i].row]
    IN  IF options = <<>>
        THEN <<CallWorksheet, CallUpdate(<< <<"No option positions found">> >>, 1)>>
        ELSE IF EnrichRaises(options) THEN <<>>
        ELSE <<CallWorksheet, CallClear, CallUpdate(rows, 1), CallFormat, CallFormat>>

\* ---- stage 5: process_simple_trading_activity ----
TradeRow(t) ==
    <<"2026-01-0" \o Str(DecStr(t.date)), "Stock",
      IF t.instrument = "ok" THEN t.symbol ELSE "Unknown">>

TradeCalls(trades) ==
    LET items == [i \in 1..Len(trades) |-> [key |-> trades[i].date, row |-> TradeRow(trades[i])]]
        sorted == SortDesc(items)
        rows == << <<"Last " \o Str(DecStr(Len(trades))) \o " Filled Trades">>,
                   <<"">>,
                   <<"Date", "Type", "Symbol">> >>
                \o [i \in 1..Len(sorted) |-> sorted[i].row]
    IN  IF trades = <<>> THEN <<>>
        ELSE <<CallWorksheet, CallClear, CallClear, CallUpdate(rows, 1), CallFormat, CallFormat>>

NotAttempted == [attempted |-> FALSE, fault |-> 0, failed |-> FALSE, completed |-> FALSE]

PipelineInit ==
    /\ environ \in Environs
    /\ upstream \in Upstreams
    /\ run = 1
    /\ main_pc = "start"
    /\ attempted = <<>>
    /\ outcome = [s \in StageSet |-> NotAttempted]
    /\ login_called = FALSE
    /\ sheets_called = FALSE
    /\ error = ""
    /\ worksheets = [s \in StageSet |-> PriorSheet]
    /\ before_run = [s \in StageSet |-> PriorSheet]
    /\ faults = 0
    /\ call_args = <<>>
    /\ call_sleeps = <<>>
    /\ call_result = <<>>
    /\ handler = default_handler
    /\ func = "wrapped_func"
    /\ orders_empty = FALSE
    /\ pc = "idle"
    /\ retries = 0
    /\ delay = 0
    /\ attempts = 0
    /\ failures = {}
    /\ last_error = NoMsg
    /\ slept = NoSleep
    /\ func_value = "None"
    /\ result = "None"
    /\ exc = NoMsg
    /\ sheet = StaleSheet
    /\ failed_writes = {}
    /\ account_data = <<>>
    /\ stock_collateral = <<>>
    /\ position = <<>>
    /\ strategy = "None"
    /\ passed = <<>>
    /\ first_call = <<>>
    /\ classified_between = FALSE
    /\ now = [utc |-> 0, local |-> 0]
    /\ orders = <<>>
    /\ weekly_pc = "orders"
    /\ weekly_result = [weekly |-> <<>>, account |-> <<>>]
    /\ table = [account_type |-> "None", rows |-> <<>>, next_row |-> 0]

\* main(), lines 430-474: configuration, login, spreadsheet
Initialize ==
    /\ main_pc = "start"
    /\ LET config == load_config(environ)
       IN  IF config.raised
           THEN /\ error' = config.error
                /\ main_pc' = "aborted"
                /\ UNCHANGED <<login_called, sheets_called, faults>>
           ELSE IF config.account_id = ""
           THEN /\ error' = "MAIN_ACCOUNT environment variable must be set"
                /\ main_pc' = "aborted"
                /\ UNCHANGED <<login_called, sheets_called, faults>>
           ELSE \E login_ok \in BOOLEAN, connect_ok \in BOOLEAN :
                /\ login_called' = TRUE
                /\ sheets_called' = login_ok
                /\ error' = IF ~login_ok THEN "login" ELSE IF ~connect_ok THEN "connect" ELSE ""
                /\ main_pc' = IF login_ok /\ connect_ok THEN "balances" ELSE "aborted"
                /\ faults' = IF login_ok /\ connect_ok THEN 0 ELSE 1
    /\ UNCHANGED <<environ, upstream, run, attempted, outcome, worksheets, before_run>>
    /\ UNCHANGED outside_pipeline

\* one stage: its calls up to the one that raises, and what main() does next
RunStage(stage, calls, fault, raised_inside, to_main) ==
    /\ main_pc = stage
    /\ fault # 0 => faults < MaxFaults
    /\ worksheets' = [worksheets EXCEPT ![stage] =
                         ApplyCalls(@, calls, IF fault = 0 THEN Len(calls) ELSE fault - 1)]
    /\ outcome' = [outcome EXCEPT ![stage] =
                      [attempted |-> TRUE, fault |-> fault,
                       failed |-> fault # 0 \/ raised_inside,
                       completed |-> /\ ~raised_inside
                                     /\ \A k \in 1..Len(calls) :
                                            (fault # 0 /\ k >= fault) => calls[k].op = "format"]]
    /\ attempted' = Append(attempted, stage)
    /\ faults' = IF fault # 0 THEN faults + 1 ELSE faults
    /\ main_pc' = AfterStage(stage, to_main)
    /\ UNCHANGED <<environ, upstream, run, login_called, sheets_called, error, before_run>>
    /\ UNCHANGED outside_pipeline

\* main(), lines 476-489: an exception reaches the try of main()
ProcessAccountBalances ==
    LET calls == BalancesCalls(Str(DecStr(run)))
    IN  \E fault \in 0..Len(calls) : RunStage("balances", calls, fault, FALSE, fault # 0)

\* main(), lines 491-496: process_stock_positions returns None on any exception
ProcessStockPositions ==
    LET calls == StockCalls(upstream.stocks)
    IN  \E fault \in 0..Len(calls) : RunStage("stocks", calls, fault, FALSE, FALSE)

\* main(), lines 498-503: the call passes five positional arguments to
\* process_options_orders(spreadsheet, main_account_id=None, ira_account_id=None)
\* and raises TypeError before the function is entered
ProcessOptionsOrders ==
    /\ main_pc = "orders"
    /\ RunStage("orders", <<>>, 0, TRUE, TRUE)

\* main(), lines 505-510: process_integrated_option_positions catches every exception
ProcessOptionPositions ==
    LET calls == OptionCalls(upstream.options)
    IN  \E fault \in 0..Len(calls) :
            RunStage("positions", calls, fault, EnrichRaises(upstream.options), FALSE)

\* main(), lines 512-525: process_simple_trading_activity catches every exception
ProcessRecentTrades ==
    LET calls == TradeCalls(upstream.trades)
    IN  \E fault \in 0..Len(calls) : RunStage("trades", calls, fault, FALSE, FALSE)

\* the operator starts the program again; upstream data is as it was
RunAgain ==
    /\ main_pc = "done"
    /\ faults = 0
    /\ run < Runs
    /\ run' = run + 1
    /\ main_pc' = "start"
    /\ attempted' = <<>>
    /\ outcome' = [s \in StageSet |-> NotAttempted]
    /\ login_called' = FALSE
    /\ sheets_called' = FALSE
    /\ error' = ""
    /\ before_run' = worksheets
    /\ UNCHANGED <<environ, upstream, worksheets, faults>>
    /\ UNCHANGED outside_pipeline

PipelineNext ==
    \/ Initialize
    \/ ProcessAccountBalances
    \/ ProcessStockPositions
    \/ ProcessOptionsOrders
    \/ ProcessOptionPositions
    \/ ProcessRecentTrades
    \/ RunAgain

SpecPipeline ==
    /\ PipelineInit
    /\ [][PipelineNext]_vars


(***************************************************************************)
(* sleep_with_jitter (rate_limit_handler.py).  The base duration is in     *)
(* milliseconds, a slept duration in microseconds, and random.random()     *)
(* returns r/100 for r in 0..99.                                           *)
(***************************************************************************)
Max(a, b) == IF a >= b THEN a ELSE b

\* the base durations the program passes (0.5 s, 1 s, 2 s, 3 s), short ones
\* around the floor, and none
JitterBases == {-500, 0, 50, 100, 140, 143, 500, 1000, 2000, 3000}

JitterRandoms == 0..99

sleep_time_unfloored(base_seconds, rnd) == base_seconds * 700 + base_seconds * 3 * rnd

\* jitter = base_seconds * 0.3 * random.random()
\* sleep_time = max(0.1, base_seconds * 0.7 + jitter)
sleep_time(base_seconds, rnd) ==
    Max(100000, base_seconds * 700 + base_seconds * 3 * rnd)

JitterInit ==
    /\ call_args \in [base_seconds : JitterBases]
    /\ call_sleeps = <<>>
    /\ call_result = <<>>
    /\ handler = default_handler
    /\ func = "wrapped_func"
    /\ orders_empty = FALSE
    /\ pc = "idle"
    /\ retries = 0
    /\ delay = 0
    /\ attempts = 0
    /\ failures = {}
    /\ last_error = NoMsg
    /\ slept = NoSleep
    /\ func_value = "None"
    /\ result = "None"
    /\ exc = NoMsg
    /\ sheet = StaleSheet
    /\ failed_writes = {}
    /\ account_data = <<>>
    /\ stock_collateral = <<>>
    /\ position = <<>>
    /\ strategy = "None"
    /\ passed = <<>>
    /\ first_call = <<>>
    /\ classified_between = FALSE
    /\ now = [utc |-> 0, local |-> 0]
    /\ orders = <<>>
    /\ weekly_pc = "orders"
    /\ weekly_result = [weekly |-> <<>>, account |-> <<>>]
    /\ table = [account_type |-> "None", rows |-> <<>>, next_row |-> 0]
    /\ environ = <<>>
    /\ upstream = <<>>
    /\ run = 0
    /\ main_pc = "start"
    /\ attempted = <<>>
    /\ outcome = <<>>
    /\ login_called = FALSE
    /\ sheets_called = FALSE
    /\ error = ""
    /\ worksheets = <<>>
    /\ before_run = <<>>
    /\ faults = 0

\* sleep_with_jitter(base_seconds) with base_seconds <= 0: return 0
SleepNotAtAll ==
    /\ call_result = <<>>
    /\ call_args.base_seconds <= 0
    /\ call_result' = [value |-> 0]
    /\ UNCHANGED <<call_args, call_sleeps>>
    /\ UNCHANGED outside_call

\* sleep_with_jitter(base_seconds) with base_seconds > 0: time.sleep(sleep_time)
\* and return sleep_time
SleepWithJitter ==
    /\ call_result = <<>>
    /\ call_args.base_seconds > 0
    /\ \E rnd \in JitterRandoms :
          /\ call_sleeps' = Append(call_sleeps, sleep_time(call_args.base_seconds, rnd))
          /\ call_result' = [value |-> sleep_time(call_args.base_seconds, rnd)]
    /\ UNCHANGED call_args
    /\ UNCHANGED outside_call

JitterNext ==
    \/ SleepNotAtAll
    \/ SleepWithJitter

SpecJitter ==
    /\ JitterInit
    /\ [][JitterNext]_vars


(***************************************************************************)
(* enrich_option_orders (options_orders.py) applied to one order.  Money   *)
(* is in cents, a strike in cents.                                         *)
(***************************************************************************)
MaxLegs == 3

\* safe_float(value, default): the strings the brokerage sends, None, no number
safe_float(value, default) ==
    CASE value = "None" -> default
      [] value = "150.00" -> 15000
      [] value = "100.00" -> 10000
      [] value = "5.0000" -> 500
      [] value = "10.0000" -> 1000
      [] value = "1.00000" -> 100
      [] value = "0" -> 0
      [] OTHER -> default

\* the legs of an order (none carries an expiration date): complete ones, one
\* whose type is written in capitals, one without a type and one without a strike
LegKinds ==
    [option_type : {"call", "put"}, strike_price : {"5.0000", "10.0000"},
     quantity : {"1.00000"}]
    \cup {[option_type |-> "CALL", strike_price |-> "5.0000", quantity |-> "1.00000"],
          [strike_price |-> "5.0000", quantity |-> "1.00000"],
          [option_type |-> "call", quantity |-> "1.00000"]}

LegLists == UNION {[1..n -> LegKinds] : n \in 0..MaxLegs}

\* what an order carries besides its legs
OrderHeads ==
    {[account_number |-> "5QU52702", direction |-> "credit", chain_symbol |-> "AAPL",
      processed_premium |-> "150.00", premium |-> "150.00", quantity |-> "1.00000"],
     [account_number |-> "ABC123", direction |-> "debit", chain_symbol |-> "AAPL",
      processed_premium |-> "0", premium |-> "100.00", quantity |-> "1.00000"],
     [chain_symbol |-> "AAPL", premium |-> "None"]}

OptionOrders ==
    OrderHeads \cup {("legs" :> legs) @@ head : legs \in LegLists, head \in OrderHeads}

RECURSIVE SumSeq(_)
SumSeq(s) == IF s = <<>> THEN 0 ELSE Head(s) + SumSeq(Tail(s))

\* extract_quantity(order), in hundredths of a contract
extract_quantity(order) ==
    LET legs == Get(order, "legs", <<>>)
        quantity == SumSeq([i \in 1..Len(legs) |->
                               LET leg_qty == safe_float(Get(legs[i], "quantity", "0"), 0)
                               IN  IF leg_qty > 0 THEN leg_qty ELSE 0])
    IN  IF quantity = 0 THEN safe_float(Get(order, "quantity", "0"), 0) ELSE quantity

RECURSIVE JoinSlash(_)
\* '/'.join(items)
JoinSlash(items) ==
    IF items = <<>> THEN ""
    ELSE IF Len(items) = 1 THEN items[1]
    ELSE items[1] \o "/" \o JoinSlash(Tail(items))

RECURSIVE SortedNumbers(_)
\* sorted(s) for a set of numbers
SortedNumbers(s) ==
    IF s = {} THEN <<>>
    ELSE LET m == CHOOSE x \in s : \A y \in s : x <= y
         IN  <<m>> \o SortedNumbers(s \ {m})

\* sorted(option_types)
SortedTypes(s) == SelectSeq(<<"CALL", "PUT">>, LAMBDA t : t \in s)

strategy_label_by_types(leg_count, option_types, strikes) ==
    IF leg_count = 1
    THEN "Single " \o (IF option_types = {} THEN "Option" ELSE CHOOSE t \in option_types : TRUE)
    ELSE IF leg_count = 2
    THEN IF Cardinality(option_types) = 1 THEN (CHOOSE t \in option_types : TRUE) \o " Vertical"
         ELSE IF Cardinality(strikes) = 1 THEN "Straddle"
         ELSE IF Cardinality(strikes) = 2 THEN "Strangle"
         ELSE "2-Leg Strategy"
    ELSE Str(DecStr(leg_count)) \o "-Leg Strategy"

\* the if/elif chain on leg_count, option_types and strikes
strategy_label(leg_count, option_types, strikes) ==
    IF leg_count = 1
    THEN "Single " \o (IF option_types = {} THEN "Option" ELSE CHOOSE t \in option_types : TRUE)
    ELSE IF leg_count = 2
    THEN IF Cardinality(option_types) = 1 /\ Cardinality(strikes) = 2
         THEN (CHOOSE t \in option_types : TRUE) \o " Vertical"
         ELSE IF Cardinality(option_types) = 2 /\ Cardinality(strikes) = 1 THEN "Straddle"
         ELSE IF Cardinality(option_types) = 2 /\ Cardinality(strikes) = 2 THEN "Strangle"
         ELSE "2-Leg Strategy"
    ELSE Str(DecStr(leg_count)) \o "-Leg Strategy"

\* one iteration of `for order in orders`: the enriched order
enrich_option_order(order) ==
    LET account_number == Get(order, "account_number", "Unknown")
        processed == safe_float(Get(order, "processed_premium", "0"), 0)
        premium == IF processed # 0 THEN processed
                   ELSE safe_float(Get(order, "premium", "0"), 0)
        quantity == extract_quantity(order)
        direction == Get(order, "direction", "")
        legs == Get(order, "legs", <<>>)
        option_types == {upper(legs[i].option_type) :
                            i \in {j \in 1..Len(legs) : "option_type" \in DOMAIN legs[j]}}
        strikes == {safe_float(Get(legs[i], "strike_price", "0"), 0) : i \in 1..Len(legs)} \ {0}
        common ==
            [account_type |-> Get(account_mapping, account_number, "Unknown"),
             symbol |-> Get(order, "chain_symbol", "Unknown"),
             total_premium |-> premium,
             quantity |-> quantity,
             premium_per_contract |-> IF quantity > 0 THEN (premium * 100) \div quantity ELSE 0,
             direction_formatted |->
                 CASE direction = "debit" -> "Buy (Debit)"
                   [] direction = "credit" -> "Sell (Credit)"
                   [] OTHER -> "Unknown"]
        shape ==
            IF legs # <<>>
            THEN [option_types |-> IF option_types # {} THEN JoinSlash(SortedTypes(option_types))
                                   ELSE "Unknown",
                  strikes |-> IF strikes # {}
                              THEN JoinSlash([i \in 1..Cardinality(strikes) |->
                                                 Str(FormatMoney(SortedNumbers(strikes)[i]))])
                              ELSE "N/A",
                  expirations |-> "N/A",
                  strategy |-> strategy_label(Len(legs), option_types, strikes)]
            ELSE [option_types |-> "Unknown", strikes |-> "N/A", expirations |-> "N/A",
                  strategy |-> "Unknown"]
    IN  shape @@ common @@ order

EnrichInit ==
    /\ call_args \in [orders : {<<o>> : o \in OptionOrders}]
    /\ call_sleeps = <<>>
    /\ call_result = <<>>
    /\ handler = default_handler
    /\ func = "wrapped_func"
    /\ orders_empty = FALSE
    /\ pc = "idle"
    /\ retries = 0
    /\ delay = 0
    /\ attempts = 0
    /\ failures = {}
    /\ last_error = NoMsg
    /\ slept = NoSleep
    /\ func_value = "None"
    /\ result = "None"
    /\ exc = NoMsg
    /\ sheet = StaleSheet
    /\ failed_writes = {}
    /\ account_data = <<>>
    /\ stock_collateral = <<>>
    /\ position = <<>>
    /\ strategy = "None"
    /\ passed = <<>>
    /\ first_call = <<>>
    /\ classified_between = FALSE
    /\ now = [utc |-> 0, local |-> 0]
    /\ orders = <<>>
    /\ weekly_pc = "orders"
    /\ weekly_result = [weekly |-> <<>>, account |-> <<>>]
    /\ table = [account_type |-> "None", rows |-> <<>>, next_row |-> 0]
    /\ environ = <<>>
    /\ upstream = <<>>
    /\ run = 0
    /\ main_pc = "start"
    /\ attempted = <<>>
    /\ outcome = <<>>
    /\ login_called = FALSE
    /\ sheets_called = FALSE
    /\ error = ""
    /\ worksheets = <<>>
    /\ before_run = <<>>
    /\ faults = 0

\* enriched_orders = enrich_option_orders(orders)
EnrichOptionOrders ==
    /\ call_result = <<>>
    /\ call_result' = [enriched_orders |->
                          [i \in 1..Len(call_args.orders) |->
                              enrich_option_order(call_args.orders[i])]]
    /\ UNCHANGED <<call_args, call_sleeps>>
    /\ UNCHANGED outside_call

EnrichNext ==
    \/ EnrichOptionOrders

SpecEnrich ==
    /\ EnrichInit
    /\ [][EnrichNext]_vars


(***************************************************************************)
(* get_last_50_trades (trading_activity.py).  created_at is a time stamp   *)
(* in ISO format with one time zone; the model keeps it as a number whose  *)
(* order is the order of the strings.                                      *)
(***************************************************************************)
TradeLimit == 50

\* n orders created at first, first + step, ...; every fourth one is not filled
OrderRun(type, account, first, step, n) ==
    [i \in 1..n |-> [created_at |-> first + (i - 1) * step,
                     state |-> IF i % 4 = 0 THEN "cancelled" ELSE "filled",
                     type |-> type, account |-> account]]

\* what one brokerage listing returns: nothing, a few orders, or more than
\* TradeLimit filled ones
Listings(type, account, first) ==
    {<<>>, OrderRun(type, account, first, 7, 3), OrderRun(type, account, first + 1, 3, 72)}

NoFault == [call |-> "none", account |-> ""]

\* the call of the brokerage that raises, if one does
TradeFaults(account_ids) ==
    {NoFault, [call |-> "get_all_crypto_orders", account |-> ""]}
    \cup [call : {"get_all_stock_orders", "get_all_option_orders"},
          account : {account_ids[i] : i \in 1..Len(account_ids)}]

TradeArgs ==
    UNION {[account_ids : {ids},
            stock_orders : {[a \in {"5QU52702", "519517908"} |->
                                IF a = "5QU52702" THEN l ELSE OrderRun("Stock", a, 2, 5, 2)] :
                            l \in Listings("Stock", "5QU52702", 10)},
            option_orders : {[a \in {"5QU52702", "519517908"} |->
                                 IF a = "519517908" THEN l ELSE OrderRun("Option", a, 4, 11, 3)] :
                             l \in Listings("Option", "519517908", 20)},
            crypto_orders : Listings("Crypto", "", 30),
            fault : TradeFaults(ids)] :
           ids \in {<<"5QU52702">>, <<"5QU52702", "519517908">>}}

RECURSIVE FetchedFor(_, _, _, _)
\* `for account_id in account_ids` inside one try: the orders fetched until a
\* fetch raises
FetchedFor(account_ids, listing, call, fault) ==
    IF account_ids = <<>> THEN <<>>
    ELSE IF fault = [call |-> call, account |-> Head(account_ids)] THEN <<>>
    ELSE <<[account_id |-> Head(account_ids), orders |-> listing[Head(account_ids)]]>>
             \o FetchedFor(Tail(account_ids), listing, call, fault)

RECURSIVE Flatten(_)
Flatten(ls) == IF ls = <<>> THEN <<>> ELSE Head(ls) \o Flatten(Tail(ls))

\* the trades one loop appends: filled orders only
TradesOf(fetched, type) ==
    Flatten([i \in 1..Len(fetched) |->
                LET filled == SelectSeq(fetched[i].orders, LAMBDA o : o.state = "filled")
                IN  [j \in 1..Len(filled) |->
                        [date |-> filled[j].created_at,
                         account |-> IF type = "Crypto" THEN "Main"
                                     ELSE Get(account_mapping, fetched[i].account_id, "Unknown"),
                         type |-> type,
                         state |-> filled[j].state]]])

\* recent_trades = all_trades[:50]
recent_trades(all_trades, limit) ==
    SubSeq(all_trades, 1, IF Len(all_trades) < limit THEN Len(all_trades) ELSE limit)

\* all_trades.sort(key=lambda x: x.get('date', ''), reverse=True)
sort_by_date(items) ==
    LET Before(k, j) == \/ items[k].key > items[j].key
                        \/ items[k].key = items[j].key /\ k < j
        Rank(j) == Cardinality({k \in 1..Len(items) : Before(k, j)}) + 1
    IN  [i \in 1..Len(items) |-> items[CHOOSE j \in 1..Len(items) : Rank(j) = i]]

\* get_last_50_trades(account_ids)
get_last_50_trades(a) ==
    LET stock == TradesOf(FetchedFor(a.account_ids, a.stock_orders,
                                     "get_all_stock_orders", a.fault), "Stock")
        option == TradesOf(FetchedFor(a.account_ids, a.option_orders,
                                      "get_all_option_orders", a.fault), "Option")
        crypto == IF a.fault.call = "get_all_crypto_orders" THEN <<>>
                  ELSE TradesOf(<<[account_id |-> "", orders |-> a.crypto_orders]>>, "Crypto")
        all_trades == stock \o option \o crypto
        sorted == sort_by_date([i \in 1..Len(all_trades) |->
                                   [key |-> all_trades[i].date, row |-> all_trades[i]]])
    IN  recent_trades([i \in 1..Len(sorted) |-> sorted[i].row], TradeLimit)

TradesInit ==
    /\ call_args \in TradeArgs
    /\ call_sleeps = <<>>
    /\ call_result = <<>>
    /\ handler = default_handler
    /\ func = "wrapped_func"
    /\ orders_empty = FALSE
    /\ pc = "idle"
    /\ retries = 0
    /\ delay = 0
    /\ attempts = 0
    /\ failures = {}
    /\ last_error = NoMsg
    /\ slept = NoSleep
    /\ func_value = "None"
    /\ result = "None"
    /\ exc = NoMsg
    /\ sheet = StaleSheet
    /\ failed_writes = {}
    /\ account_data = <<>>
    /\ stock_collateral = <<>>
    /\ position = <<>>
    /\ strategy = "None"
    /\ passed = <<>>
    /\ first_call = <<>>
    /\ classified_between = FALSE
    /\ now = [utc |-> 0, local |-> 0]
    /\ orders = <<>>
    /\ weekly_pc = "orders"
    /\ weekly_result = [weekly |-> <<>>, account |-> <<>>]
    /\ table = [account_type |-> "None", rows |-> <<>>, next_row |-> 0]
    /\ environ = <<>>
    /\ upstream = <<>>
    /\ run = 0
    /\ main_pc = "start"
    /\ attempted = <<>>
    /\ outcome = <<>>
    /\ login_called = FALSE
    /\ sheets_called = FALSE
    /\ error = ""
    /\ worksheets = <<>>
    /\ before_run = <<>>
    /\ faults = 0

\* recent_trades = get_last_50_trades(valid_account_ids)
GetLast50Trades ==
    /\ call_result = <<>>
    /\ call_result' = [recent_trades |-> get_last_50_trades(call_args)]
    /\ UNCHANGED <<call_args, call_sleeps>>
    /\ UNCHANGED outside_call

TradesNext ==
    \/ GetLast50Trades

SpecTrades ==
    /\ TradesInit
    /\ [][TradesNext]_vars


(***************************************************************************)
(* process_integrated_option_positions (main.py) for two accounts: the     *)
(* positions it collects, and the rows it hands to the worksheet.          *)
(***************************************************************************)
OptionIds == {"opt-1", "opt-2"}

\* r.get_option_instrument_data_by_id
OptionInstrument(option_id) ==
    IF option_id = "opt-1"
    THEN [chain_symbol |-> "AAPL", strike_price |-> "5.0000", type |-> "call"]
    ELSE [chain_symbol |-> "TSLA", strike_price |-> "10.0000", type |-> "put"]

\* r.get_open_option_positions(account_number): one position per contract held
OpenPositions ==
    {<<>>, <<[option_id |-> "opt-1", quantity |-> 1]>>, <<[option_id |-> "opt-2", quantity |-> 1]>>,
     <<[option_id |-> "opt-1", quantity |-> 2], [option_id |-> "opt-2", quantity |-> 1]>>}

PositionArgs ==
    [main_account_id : {"MAIN"},
     ira_account_id : {"", "MAIN", "IRA"},
     main_options : OpenPositions,
     ira_options : OpenPositions,
     no_data : SUBSET OptionIds]

Tagged(options, account_type, account_number) ==
    [i \in 1..Len(options) |->
        [account_type |-> account_type, account_number |-> account_number] @@ options[i]]

RECURSIVE unique_positions(_, _)
\* the loop "Remove duplicates based on option_id"
unique_positions(combined, seen) ==
    IF combined = <<>> THEN <<>>
    ELSE IF Head(combined).option_id \in seen THEN unique_positions(Tail(combined), seen)
    ELSE <<Head(combined)>>
             \o unique_positions(Tail(combined), seen \cup {Head(combined).option_id})

\* the rows of the Option Positions sheet, or none when no position is open
option_position_rows(a) ==
    LET main == Tagged(a.main_options, "Main", a.main_account_id)
        ira == IF a.ira_account_id # "" /\ a.ira_account_id # a.main_account_id
               THEN Tagged(a.ira_options, "IRA", a.ira_account_id)
               ELSE <<>>
        combined_positions == unique_positions(main \o ira, {})
        with_data == SelectSeq(combined_positions, LAMBDA p : p.option_id \notin a.no_data)
        accounts == [acc \in {a.main_account_id, a.ira_account_id} \ {""} |->
                            [cash_for_options |-> 900,
                             type |-> IF acc = a.ira_account_id THEN "IRA" ELSE "Standard"]]
        items == [i \in 1..Len(with_data) |->
                     LET p == with_data[i]
                         pos == EnrichedPosition(p.account_number, p.quantity,
                                                 OptionInstrument(p.option_id))
                     IN  [key |-> (OptionValue(p) * 10000) \div TotalEquity.cents,
                          row |-> <<p.account_type, pos.symbol, pos.strike_price,
                                    pos.option_type,
                                    simplified_strategy_detection(pos, accounts, EmptyDict),
                                    FormatPct(OptionValue(p), TotalEquity.cents)>>]]
        sorted == SortDesc(items)
    IN  [i \in 1..Len(sorted) |-> sorted[i].row]

PositionsInit ==
    /\ call_args \in PositionArgs
    /\ call_sleeps = <<>>
    /\ call_result = <<>>
    /\ handler = default_handler
    /\ func = "wrapped_func"
    /\ orders_empty = FALSE
    /\ pc = "idle"
    /\ retries = 0
    /\ delay = 0
    /\ attempts = 0
    /\ failures = {}
    /\ last_error = NoMsg
    /\ slept = NoSleep
    /\ func_value = "None"
    /\ result = "None"
    /\ exc = NoMsg
    /\ sheet = StaleSheet
    /\ failed_writes = {}
    /\ account_data = <<>>
    /\ stock_collateral = <<>>
    /\ position = <<>>
    /\ strategy = "None"
    /\ passed = <<>>
    /\ first_call = <<>>
    /\ classified_between = FALSE
    /\ now = [utc |-> 0, local |-> 0]
    /\ orders = <<>>
    /\ weekly_pc = "orders"
    /\ weekly_result = [weekly |-> <<>>, account |-> <<>>]
    /\ table = [account_type |-> "None", rows |-> <<>>, next_row |-> 0]
    /\ environ = <<>>
    /\ upstream = <<>>
    /\ run = 0
    /\ main_pc = "start"
    /\ attempted = <<>>
    /\ outcome = <<>>
    /\ login_called = FALSE
    /\ sheets_called = FALSE
    /\ error = ""
    /\ worksheets = <<>>
    /\ before_run = <<>>
    /\ faults = 0

\* process_integrated_option_positions(sheets_client, spreadsheet, main_account_id,
\* ira_account_id, config)
ProcessIntegratedOptionPositions ==
    /\ call_result = <<>>
    /\ call_result' = [rows |-> option_position_rows(call_args)]
    /\ UNCHANGED <<call_args, call_sleeps>>
    /\ UNCHANGED outside_call

PositionsNext ==
    \/ ProcessIntegratedOptionPositions

SpecPositions ==
    /\ PositionsInit
    /\ [][PositionsNext]_vars


(***************************************************************************)
(* calculate_weekly_premium_stats on the orders of the configured          *)
(* accounts: get_all_options_orders stamps each order with the account     *)
(* number it was fetched for.                                              *)
(***************************************************************************)
\* MAIN_ACCOUNT, IRA_ACCOUNT and THIRD_ACCOUNT as config.py reads them
AccountConfigs ==
    {[MAIN_ACCOUNT |-> "5QU52702", IRA_ACCOUNT |-> "519517908", THIRD_ACCOUNT |-> "410351639"],
     [MAIN_ACCOUNT |-> "ABC123", IRA_ACCOUNT |-> "519517908", THIRD_ACCOUNT |-> ""],
     [MAIN_ACCOUNT |-> "519517908", IRA_ACCOUNT |-> "5QU52702", THIRD_ACCOUNT |-> ""]}

\* get_account_type_mapping(main_account_id, ira_account_id, third_account_id)
get_account_type_mapping(main_account_id, ira_account_id, third_account_id) ==
    LET third == IF third_account_id # "" THEN (third_account_id :> "Third") ELSE <<>>
        ira == IF ira_account_id # "" THEN (ira_account_id :> "IRA") ELSE <<>>
        main == IF main_account_id # "" THEN (main_account_id :> "Standard") ELSE <<>>
    IN  third @@ ira @@ main

\* order['account_id'] = account_number, for the accounts of the configuration
ConfiguredOrders(env, today) ==
    [state : {"filled"},
     created_at : {strftime(today)},
     account_id : {env[k] : k \in DOMAIN env} \ {""},
     total_premium : {5000, 10000},
     direction : Directions]

AccountsInit ==
    /\ environ \in AccountConfigs
    /\ now \in Nows
    /\ orders \in UNION {[1..n -> ConfiguredOrders(environ, now.utc)] : n \in 1..2}
    /\ weekly_pc = "orders"
    /\ weekly_result = [weekly |-> <<>>, account |-> <<>>]
    /\ table = [account_type |-> "None", rows |-> <<>>, next_row |-> 0]
    /\ upstream = <<>>
    /\ run = 0
    /\ main_pc = "start"
    /\ attempted = <<>>
    /\ outcome = <<>>
    /\ login_called = FALSE
    /\ sheets_called = FALSE
    /\ error = ""
    /\ worksheets = <<>>
    /\ before_run = <<>>
    /\ faults = 0
    /\ call_args = <<>>
    /\ call_sleeps = <<>>
    /\ call_result = <<>>
    /\ handler = default_handler
    /\ func = "wrapped_func"
    /\ orders_empty = FALSE
    /\ pc = "idle"
    /\ retries = 0
    /\ delay = 0
    /\ attempts = 0
    /\ failures = {}
    /\ last_error = NoMsg
    /\ slept = NoSleep
    /\ func_value = "None"
    /\ result = "None"
    /\ exc = NoMsg
    /\ sheet = StaleSheet
    /\ failed_writes = {}
    /\ account_data = <<>>
    /\ stock_collateral = <<>>
    /\ position = <<>>
    /\ strategy = "None"
    /\ passed = <<>>
    /\ first_call = <<>>
    /\ classified_between = FALSE

SpecAccounts ==
    /\ AccountsInit
    /\ [][WeeklyNext]_vars


(***************************************************************************)
(* update_options_orders_sheet (options_orders.py): the rows of the        *)
(* worksheet each of its writes covers.                                    *)
(***************************************************************************)
MaxHistory == 24

HistoryLimit == 20

\* n enriched orders of the last weeks, every k-th one cancelled
LayoutOrders(n, k, today) ==
    [i \in 1..n |-> [state |-> IF i % k = 0 THEN "cancelled" ELSE "filled",
                     created_at |-> strftime(today - 7 * (i % 3)),
                     account_id |-> IF i % 2 = 0 THEN "5QU52702" ELSE "519517908",
                     total_premium |-> 5000,
                     direction |-> DirCredit]]

history_orders_uncut(sorted_orders) == sorted_orders

\* sorted_orders[:20]
history_orders(sorted_orders) ==
    SubSeq(sorted_orders, 1, Min(HistoryLimit, Len(sorted_orders)))

\* the writes of update_options_orders_sheet(sheet, orders): for each, the
\* first and the last row of its range
options_orders_writes(os, today_utc, today_local) ==
    IF os = <<>>
    THEN <<[region |-> "placeholder", first |-> 1, last |-> 1]>>
    ELSE LET filtered_orders == SelectSeq(os, LAMBDA o : o.state # "cancelled")
             main_table == <<"Options Order History", "", "headers">>
                           \o [i \in 1..Len(history_orders(filtered_orders)) |-> "order"]
             account_stats == calculate_weekly_premium_stats(os, WeeksBack, today_utc).account
             Weekly(account_type) ==
                 LET start_row == account_positions[account_type]
                     table_data == create_fixed_weekly_table(account_type, account_stats,
                                                             start_row, WeeksToShow,
                                                             today_local).rows
                 IN  [region |-> account_type, first |-> start_row,
                      last |-> start_row + Len(table_data) - 1]
         IN  <<[region |-> "history", first |-> 1, last |-> Len(main_table)],
               Weekly("Standard"), Weekly("IRA"), Weekly("Third")>>

LayoutInit ==
    /\ now \in Nows
    /\ call_args \in {[orders |-> LayoutOrders(n, k, now.utc)] : n \in 0..MaxHistory, k \in {2, 3, 30}}
    /\ call_sleeps = <<>>
    /\ call_result = <<>>
    /\ orders = <<>>
    /\ weekly_pc = "orders"
    /\ weekly_result = [weekly |-> <<>>, account |-> <<>>]
    /\ table = [account_type |-> "None", rows |-> <<>>, next_row |-> 0]
    /\ handler = default_handler
    /\ func = "wrapped_func"
    /\ orders_empty = FALSE
    /\ pc = "idle"
    /\ retries = 0
    /\ delay = 0
    /\ attempts = 0
    /\ failures = {}
    /\ last_error = NoMsg
    /\ slept = NoSleep
    /\ func_value = "None"
    /\ result = "None"
    /\ exc = NoMsg
    /\ sheet = StaleSheet
    /\ failed_writes = {}
    /\ account_data = <<>>
    /\ stock_collateral = <<>>
    /\ position = <<>>
    /\ strategy = "None"
    /\ passed = <<>>
    /\ first_call = <<>>
    /\ classified_between = FALSE
    /\ environ = <<>>
    /\ upstream = <<>>
    /\ run = 0
    /\ main_pc = "start"
    /\ attempted = <<>>
    /\ outcome = <<>>
    /\ login_called = FALSE
    /\ sheets_called = FALSE
    /\ error = ""
    /\ worksheets = <<>>
    /\ before_run = <<>>
    /\ faults = 0

\* update_options_orders_sheet(sheet, orders), no call of the sheet raising
UpdateOptionsOrdersSheet ==
    /\ call_result = <<>>
    /\ call_result' = [writes |-> options_orders_writes(call_args.orders, now.utc, now.local)]
    /\ UNCHANGED <<call_args, call_sleeps>>
    /\ UNCHANGED outside_call

LayoutNext ==
    \/ UpdateOptionsOrdersSheet

SpecLayout ==
    /\ LayoutInit
    /\ [][LayoutNext]_vars


(***************************************************************************)
(* get_account_balances (main.py).  Amounts are in cents.                  *)
(***************************************************************************)
\* what the brokerage holds for an account: profile and portfolio
AccountFunds(account_number) ==
    CASE account_number = "5QU52702" ->
             [equity |-> 100000, cash |-> 50000, cash_held_for_options_collateral |-> 20000,
              unsettled_funds |-> 1000]
      [] account_number = "519517908" ->
             [equity |-> 30000, cash |-> 7000, cash_held_for_options_collateral |-> 0,
              unsettled_funds |-> 0]
      [] OTHER ->
             [equity |-> 4500, cash |-> 4500, cash_held_for_options_collateral |-> 500,
              unsettled_funds |-> 250]

\* how the two fetches for an account end: both answer; load_account_profile
\* raises; the portfolio request raises; it returns nothing; a field of the
\* profile is not a number
AccountReplies == {"ok", "profile raises", "portfolio raises", "no portfolio", "cash is null"}

\* load_phoenix_account: raises; no crypto; equity as {'amount': ...}; as a
\* string; zero
CryptoReplies ==
    {[kind |-> "raises", equity |-> 0], [kind |-> "none", equity |-> 0],
     [kind |-> "amount", equity |-> 2500], [kind |-> "value", equity |-> 1200],
     [kind |-> "value", equity |-> 0]}

BalanceArgs ==
    UNION {[main_account_id : {ids[1]}, ira_account_id : {ids[2]}, third_account_id : {ids[3]},
            replies : [{ids[i] : i \in 1..3} \ {""} -> AccountReplies],
            crypto : CryptoReplies] :
           ids \in {<<"5QU52702", "", "">>, <<"5QU52702", "519517908", "">>,
                    <<"5QU52702", "519517908", "410351639">>,
                    <<"5QU52702", "5QU52702", "">>}}

\* account_types, in the order of the dictionary
account_types(a) ==
    LET main == IF a.main_account_id # "" THEN <<a.main_account_id>> ELSE <<>>
        ira == IF a.ira_account_id # "" /\ a.ira_account_id # a.main_account_id
               THEN <<a.ira_account_id>> ELSE <<>>
        third == IF a.third_account_id \notin {"", a.main_account_id, a.ira_account_id}
                 THEN <<a.third_account_id>> ELSE <<>>
        TypeOfNumber(n) == IF n = a.third_account_id THEN "Third"
                           ELSE IF n = a.ira_account_id THEN "IRA" ELSE "Standard"
        numbers == main \o ira \o third
    IN  [i \in 1..Len(numbers) |-> [account_number |-> numbers[i],
                                    account_type |-> TypeOfNumber(numbers[i])]]

ZeroBalances ==
    [total_equity |-> 0, total_cash |-> 0, cash_for_options_collateral |-> 0,
     available_cash |-> 0, unsettled_funds |-> 0, by_account |-> <<>>]

add_account_equity_first(balances, account_type, funds, reply) ==
    IF reply = "cash is null" THEN [balances EXCEPT !.total_equity = @ + funds.equity]
    ELSE IF reply # "ok" THEN balances
    ELSE [balances EXCEPT
             !.total_equity = @ + funds.equity,
             !.total_cash = @ + funds.cash,
             !.cash_for_options_collateral = @ + funds.cash_held_for_options_collateral,
             !.unsettled_funds = @ + funds.unsettled_funds,
             !.by_account = (account_type :>
                                [equity |-> funds.equity, cash |-> funds.cash,
                                 options_collateral |-> funds.cash_held_for_options_collateral,
                                 available_cash |->
                                     funds.cash - funds.cash_held_for_options_collateral,
                                 unsettled_funds |-> funds.unsettled_funds,
                                 total |-> funds.equity]) @@ @]

\* one iteration of `for account_number, account_type in account_types.items()`
add_account(balances, account_type, funds, reply) ==
    IF reply # "ok" THEN balances
    ELSE [balances EXCEPT
             !.total_equity = @ + funds.equity,
             !.total_cash = @ + funds.cash,
             !.cash_for_options_collateral = @ + funds.cash_held_for_options_collateral,
             !.unsettled_funds = @ + funds.unsettled_funds,
             !.by_account = (account_type :>
                                [equity |-> funds.equity, cash |-> funds.cash,
                                 options_collateral |-> funds.cash_held_for_options_collateral,
                                 available_cash |->
                                     funds.cash - funds.cash_held_for_options_collateral,
                                 unsettled_funds |-> funds.unsettled_funds,
                                 total |-> funds.equity]) @@ @]

RECURSIVE add_accounts(_, _, _)
add_accounts(balances, types, replies) ==
    IF types = <<>> THEN balances
    ELSE add_accounts(add_account(balances, Head(types).account_type,
                                  AccountFunds(Head(types).account_number),
                                  replies[Head(types).account_number]),
                      Tail(types), replies)

\* the block on load_phoenix_account
add_crypto(balances, crypto) ==
    IF crypto.kind \in {"amount", "value"} /\ crypto.equity > 0
    THEN [balances EXCEPT
             !.total_equity = @ + crypto.equity,
             !.by_account = ("Crypto" :> [equity |-> crypto.equity, cash |-> 0,
                                          unsettled_funds |-> 0, total |-> crypto.equity]) @@ @]
    ELSE balances

\* get_account_balances(main_account_id, ira_account_id, third_account_id)
get_account_balances(a) ==
    LET summed == add_accounts(ZeroBalances, account_types(a), a.replies)
        with_available == [summed EXCEPT !.available_cash =
                              summed.total_cash - summed.cash_for_options_collateral]
    IN  add_crypto(with_available, a.crypto)

BalancesInit ==
    /\ call_args \in BalanceArgs
    /\ call_sleeps = <<>>
    /\ call_result = <<>>
    /\ handler = default_handler
    /\ func = "wrapped_func"
    /\ orders_empty = FALSE
    /\ pc = "idle"
    /\ retries = 0
    /\ delay = 0
    /\ attempts = 0
    /\ failures = {}
    /\ last_error = NoMsg
    /\ slept = NoSleep
    /\ func_value = "None"
    /\ result = "None"
    /\ exc = NoMsg
    /\ sheet = StaleSheet
    /\ failed_writes = {}
    /\ account_data = <<>>
    /\ stock_collateral = <<>>
    /\ position = <<>>
    /\ strategy = "None"
    /\ passed = <<>>
    /\ first_call = <<>>
    /\ classified_between = FALSE
    /\ now = [utc |-> 0, local |-> 0]
    /\ orders = <<>>
    /\ weekly_pc = "orders"
    /\ weekly_result = [weekly |-> <<>>, account |-> <<>>]
    /\ table = [account_type |-> "None", rows |-> <<>>, next_row |-> 0]
    /\ environ = <<>>
    /\ upstream = <<>>
    /\ run = 0
    /\ main_pc = "start"
    /\ attempted = <<>>
    /\ outcome = <<>>
    /\ login_called = FALSE
    /\ sheets_called = FALSE
    /\ error = ""
    /\ worksheets = <<>>
    /\ before_run = <<>>
    /\ faults = 0

\* balances = get_account_balances(...): one sleep_with_jitter(1.0) after each
\* account that was added
GetAccountBalances ==
    /\ call_result = <<>>
    /\ call_result' = get_account_balances(call_args)
    /\ \E rnd \in {0, 99} :
          call_sleeps' = [i \in 1..Cardinality({n \in DOMAIN call_args.replies :
                                                   call_args.replies[n] = "ok"}) |->
                             sleep_time(1000, rnd)]
    /\ UNCHANGED call_args
    /\ UNCHANGED outside_call

BalancesNext ==
    \/ GetAccountBalances

SpecBalances ==
    /\ BalancesInit
    /\ [][BalancesNext]_vars

(***************************************************************************)
(* Claims about the retry wrapper, checked under SpecRetry.                *)
(***************************************************************************)
\* the messages of Msgs that contain the words "rate limit" as written
RateLimitPhraseMsgs == {MsgRateLimit}

\* the messages of Msgs that contain one of "quota", "rate limit", "429",
\* "too many requests", "exceeded" in some letter case
ThrottleMsgs == {MsgRateLimit, MsgQuota, Msg429, MsgTooMany, MsgExceeded}

\* the most recent execution of func raised
LastAttemptFailed == attempts >= 1 /\ pc \in {"running", "raised"}

\* C1: with max_retries >= 0, whatever the wrapped operation does, it is
\* attempted at most max_retries + 1 times in one invocation of the wrapper.
C1_AtMostCeilingPlusOne ==
    handler.max_retries >= 0 => attempts <= handler.max_retries + 1

C1_Witness ==
    pc = "raised" /\ handler.max_retries = 3 /\ attempts = 4

\* C2: an operation that fails every time with a "rate limit" message makes
\* the wrapper raise after exactly max_retries + 1 attempts and exactly
\* max_retries sleeps, one sleep after each failed attempt but the last.
C2_AlwaysRateLimited ==
    (/\ handler.max_retries >= 0
     /\ failures # {} /\ failures \subseteq RateLimitPhraseMsgs
     /\ LastAttemptFailed)
    => /\ pc = "raised" => /\ attempts = handler.max_retries + 1
                           /\ slept.count = handler.max_retries
       /\ pc = "running" => /\ attempts <= handler.max_retries
                            /\ slept.count = attempts

C2_Witness ==
    /\ handler = default_handler
    /\ pc = "raised" /\ failures = {MsgRateLimit}
    /\ attempts = 4 /\ slept.count = 3

\* C3 as stated: after k throttled failures and a success the wrapper returns
\* that success value, has slept k times, and every sleep lasted at least as
\* long as the one before it (put to the test on the handlers whose
\* base_delay does not exceed max_delay).
C3_SleepsNeverShrink ==
    /\ pc = "returned" => /\ result = func_value
                          /\ slept.count = attempts - 1
    /\ (LastAttemptFailed /\ last_error \in ThrottleMsgs /\ attempts <= handler.max_retries)
        => pc = "running" /\ slept.count = attempts
    /\ (pc = "returned" /\ slept.count >= 2 /\ handler.base_delay <= handler.max_delay)
        => slept.last >= slept.prev

\* C3 amended: a throttled failure with retries left is followed by one sleep
\* and another attempt, a success returns that attempt's value after one
\* sleep per failure, and a sleep lasts at least as long as the one before it
\* whenever the delay grew by the full factor 1.8 between them (max_delay
\* not reached).
C3_SleepsGrowUntilCapped ==
    /\ pc = "returned" => /\ result = func_value
                          /\ slept.count = attempts - 1
    /\ (LastAttemptFailed /\ last_error \in ThrottleMsgs /\ attempts <= handler.max_retries)
        => pc = "running" /\ slept.count = attempts
    /\ (slept.count >= 2 /\ 5 * slept.last_delay = 9 * slept.prev_delay)
        => slept.last >= slept.prev

C3_Witness ==
    /\ handler = default_handler
    /\ pc = "returned" /\ result = "v1"
    /\ failures = {Msg429} /\ attempts = 3
    /\ slept.count = 2 /\ slept.last >= slept.prev

\* C4: a failure whose message holds no throttling indicator is raised by the
\* wrapper as it is, at once: no sleep follows it and no further attempt.
C4_OtherFailurePropagates ==
    (LastAttemptFailed /\ last_error \notin ThrottleMsgs)
    => /\ pc = "raised"
       /\ exc = last_error
       /\ slept.count = attempts - 1

C4_Witness ==
    /\ pc = "raised" /\ last_error = MsgTimeout /\ exc = MsgTimeout
    /\ attempts = 3 /\ slept.count = 2

\* C5: when every attempt failed with a throttling message and the ceiling
\* ended the retries, the wrapper raises "Max retries (n) exceeded".
C5_RaisesMaxRetriesExceeded ==
    (/\ pc = "raised" /\ handler.max_retries >= 0
     /\ attempts = handler.max_retries + 1
     /\ failures # {} /\ failures \subseteq ThrottleMsgs)
    => exc = MaxRetriesMsg

\* the delays and sleeps of one invocation as the claim C6 describes them
BackoffShape ==
    /\ slept.count >= 1 =>
        /\ 800 * slept.last_delay <= slept.last
        /\ slept.last <= 1200 * slept.last_delay
        /\ slept.last_delay <= handler.max_delay
        /\ 5 * delay = Min(9 * slept.last_delay, 5 * handler.max_delay)
    /\ slept.count >= 2 => slept.last_delay >= slept.prev_delay

\* C6 as stated: for any base_delay and max_delay every sleep lasts 0.8 to 1.2
\* times the current delay, the delay after a retry is min(1.8 x delay,
\* max_delay), and the delay slept on never exceeds max_delay nor decreases.
C6_BackoffAnyConfiguration == BackoffShape

\* C6 amended: the same, for handlers with base_delay <= max_delay.
C6_BackoffWhenBaseWithinMax ==
    handler.base_delay <= handler.max_delay => BackoffShape

C6_Witness ==
    /\ handler.base_delay = HalfSec(20) /\ handler.max_delay = HalfSec(30)
    /\ slept.count = 3
    /\ slept.prev_delay = HalfSec(30) /\ slept.last_delay = HalfSec(30)
    /\ delay = HalfSec(30)

Classified == strategy # "None"

\* the shares recorded for the position's symbol in the position's own account
OwnHoldings ==
    IF /\ position.symbol \in DOMAIN stock_collateral
       /\ position.account_number \in DOMAIN stock_collateral[position.symbol]
    THEN {stock_collateral[position.symbol][position.account_number]}
    ELSE {}

ReservedCash == account_data[position.account_number].cash_for_options
RequiredCash == ParseFloat(position.strike_price).val * position.quantity * 100

\* the label of the decision procedure of the specification
ProcedureLabel ==
    IF position.option_type = "CALL" /\ OwnHoldings # {}
    THEN IF \E h \in OwnHoldings : h.collateral_shares >= position.quantity * 100
         THEN "Covered Call (CC)"
         ELSE IF \E h \in OwnHoldings : h.total_shares >= position.quantity * 100
         THEN "Covered Call (CC) - Holdings"
         ELSE "CALL Position"
    ELSE IF position.option_type = "PUT"
    THEN IF 100 * ReservedCash >= 90 * RequiredCash
         THEN "Cash-Secured Put (CSP)"
         ELSE "PUT Position"
    ELSE position.option_type \o " Position"

\* C8: for every position, account data and stock holdings the classifier
\* returns exactly the label of the decision procedure of the specification.
C8_ReturnsProcedureLabel ==
    Classified => strategy = ProcedureLabel

\* C9: a call whose account has pledged at least contracts x 100 shares of the
\* underlying as collateral is labelled "Covered Call (CC)".
C9_PledgedSharesGiveCoveredCall ==
    (/\ Classified
     /\ position.option_type = "CALL"
     /\ \E h \in OwnHoldings : h.collateral_shares >= position.quantity * 100)
    => strategy = "Covered Call (CC)"

C9_Witness ==
    /\ Classified
    /\ position.option_type = "CALL" /\ position.quantity = 1
    /\ \E h \in OwnHoldings : h.collateral_shares = 100
    /\ strategy = "Covered Call (CC)"

\* C10: a put is labelled "Cash-Secured Put (CSP)" when the cash its account
\* reserves for options collateral is at least 0.9 x strike x contracts x 100,
\* and "PUT Position" when the reserved cash is below that.
C10_PutCashThreshold ==
    (Classified /\ position.option_type = "PUT")
    => /\ 10 * ReservedCash >= 9 * RequiredCash => strategy = "Cash-Secured Put (CSP)"
       /\ 10 * ReservedCash < 9 * RequiredCash => strategy = "PUT Position"

C10_Witness ==
    /\ Classified
    /\ position.option_type = "PUT"
    /\ position.strike_price = "10.0000" /\ position.quantity = 1
    /\ ReservedCash = 890
    /\ strategy = "PUT Position"

\* C11 (as claimed): a call is labelled as a covered call only if shares of the
\* underlying are recorded for the position's own account; shares recorded
\* for another account never give a covered-call label, whatever the quantity.
C11_CoveredCallNeedsOwnHoldings ==
    (/\ Classified
     /\ position.option_type = "CALL"
     /\ strategy \in {"Covered Call (CC)", "Covered Call (CC) - Holdings"})
    => OwnHoldings # {}

Calculated == weekly_pc # "orders"

CutOff == now.utc - 7 * WeeksBack

\* orders the aggregation is to ignore, and orders that count
Excluded(o) ==
    \/ o.state # "filled"
    \/ fromisoformat(o.created_at) < CutOff
    \/ o.total_premium <= 0

Contributing(o) == ~Excluded(o)

\* the Monday of the week an order was created in, as text
WeekOf(o) == strftime(fromisoformat(o.created_at) - (fromisoformat(o.created_at) % 7))

TypeOf(o) ==
    IF o.account_id \in DOMAIN account_mapping THEN account_mapping[o.account_id] ELSE "Unknown"

Without(seq, i) == SubSeq(seq, 1, i - 1) \o SubSeq(seq, i + 1, Len(seq))

RECURSIVE PremiumSum(_)
\* the sum of the premiums of the orders at the positions I
PremiumSum(I) ==
    IF I = {} THEN 0
    ELSE LET i == CHOOSE i \in I : TRUE IN orders[i].total_premium + PremiumSum(I \ {i})

SumsAre(st, I) ==
    /\ st.premium = PremiumSum({i \in I : orders[i].direction = DirCredit})
    /\ st.btc_premium = PremiumSum({i \in I : orders[i].direction = DirDebit})
    /\ st.net_premium = st.premium - st.btc_premium

\* C13 (as claimed): an order that is not filled, or was created before the
\* cut-off, or has no positive premium leaves no trace: the results are those
\* of the same orders without it.
C13_ExcludedOrderLeavesNoTrace ==
    Calculated =>
        \A i \in 1..Len(orders) :
            Excluded(orders[i]) =>
                weekly_result = calculate_weekly_premium_stats(Without(orders, i), WeeksBack, now.utc)

\* C14: in every week of the result, and in every week of every account
\* type, the sold premium is the sum over the contributing credit orders of
\* that week, the bought-back premium the sum over its debit orders, and the
\* net premium their difference.
C14_WeeklySums ==
    Calculated =>
        /\ \A j \in 1..Len(weekly_result.weekly) :
            SumsAre(weekly_result.weekly[j][2],
                    {i \in 1..Len(orders) :
                        Contributing(orders[i]) /\ WeekOf(orders[i]) = weekly_result.weekly[j][1]})
        /\ \A a \in DOMAIN weekly_result.account :
            \A j \in 1..Len(weekly_result.account[a]) :
                SumsAre(weekly_result.account[a][j][2],
                        {i \in 1..Len(orders) :
                            /\ Contributing(orders[i])
                            /\ TypeOf(orders[i]) = a
                            /\ WeekOf(orders[i]) = weekly_result.account[a][j][1]})

C14_Witness ==
    /\ Calculated
    /\ Len(orders) = 2
    /\ \A i \in 1..2 : orders[i].state = "filled" /\ orders[i].direction = DirCredit
    /\ orders[1].total_premium = 10000 /\ orders[2].total_premium = 5000
    /\ orders[1].created_at = orders[2].created_at
    /\ Len(weekly_result.weekly) = 1
    /\ weekly_result.weekly[1][2].premium = 15000
    /\ weekly_result.weekly[1][2].net_premium = 15000

ZeroMoney == <<"$","0",".","0","0">>

\* C15: the table has two header rows and then exactly weeks_to_show rows,
\* row i for the Monday i weeks before the Monday of the current week, and
\* a week for which the aggregation holds nothing under the table's account
\* type shows $0.00 in its three premium columns.
C15_FixedWeeklyTable ==
    weekly_pc = "tabled" =>
        /\ Len(table.rows) = 2 + WeeksToShow
        /\ Len(table.rows[1]) = 1 /\ table.rows[2][1] = "Week"
        /\ \A i \in 0..(WeeksToShow - 1) :
            LET row == table.rows[3 + i]
                monday == (now.local - (now.local % 7)) - 7 * i
            IN  /\ Len(row) = 4
                /\ row[1] = strftime(monday)
                /\ (\/ table.account_type \notin DOMAIN weekly_result.account
                    \/ \A j \in 1..Len(weekly_result.account[table.account_type]) :
                           weekly_result.account[table.account_type][j][1] # row[1])
                   => row[2] = ZeroMoney /\ row[3] = ZeroMoney /\ row[4] = ZeroMoney

C15_Witness ==
    /\ weekly_pc = "tabled"
    /\ table.account_type = "Standard"
    /\ now.local = 65
    /\ table.rows[3] = <<<<2026, 1, 5>>, <<"$","1","5","0",".","0","0">>, ZeroMoney,
                         <<"$","1","5","0",".","0","0">> >>
    /\ table.rows[4] = <<<<2025, 12, 29>>, ZeroMoney, ZeroMoney, ZeroMoney>>
    /\ Len(table.rows) = 10

(***************************************************************************)
(* Claims about a run of main(), checked under SpecPipeline.               *)
(***************************************************************************)
\* the required settings that are unset or empty, in the order of config.py
MissingSettings ==
    SelectSeq(<<"ROBINHOOD_USER", "ROBINHOOD_PASS", "MAIN_ACCOUNT", "SPREADSHEET_NAME">>,
              LAMBDA v : v \notin DOMAIN environ \/ environ[v] = "")

Placeholders ==
    {<<"No positions found">>, <<"No enriched positions found">>,
     <<"No option positions found">>, <<"No options orders found">>,
     <<"No filled trades found">>}

ShowsPlaceholder(ws) ==
    /\ <<1, 1>> \in DOMAIN ws.cells
    /\ ws.cells[<<1, 1>>] \in Placeholders

HasRow(ws, row) == \E k \in DOMAIN ws.cells : ws.cells[k] = row

\* a worksheet with its "Last Updated" cell blanked
WithoutTimestamp(ws) ==
    IF /\ {<<1, 1>>, <<2, 1>>} \subseteq DOMAIN ws.cells
       /\ ws.cells[<<1, 1>>] = <<"Account Balances">>
    THEN [ws EXCEPT !.cells[<<2, 1>>] = <<"Last Updated: ">>]
    ELSE ws

\* C16: once initialization has passed, the stages entered so far are the
\* first stages of balances, stocks, orders, positions, trades in that
\* order, each once; the stage about to run is the next of that list
\* whatever the earlier stages did; and at the end all five were entered.
C16_StagesOnceInOrder ==
    /\ Len(attempted) <= Len(StageNames)
    /\ \A i \in 1..Len(attempted) : attempted[i] = StageNames[i]
    /\ main_pc \in StageSet => main_pc = StageNames[Len(attempted) + 1]
    /\ main_pc = "done" => attempted = StageNames

C16_Witness ==
    /\ main_pc = "done"
    /\ outcome["balances"].failed
    /\ outcome["orders"].failed
    /\ attempted = StageNames

\* C17: with a required setting missing, no login, no spreadsheet connection
\* and no stage ever happens, and the run ends in the error of load_config
\* that lists the missing settings.
C17_MissingSettingAborts ==
    MissingSettings # <<>> =>
        /\ ~login_called
        /\ ~sheets_called
        /\ attempted = <<>>
        /\ main_pc \in {"start", "aborted"}
        /\ main_pc = "aborted" =>
               error = "Missing required environment variables: " \o Join(MissingSettings)

C17_Witness ==
    /\ main_pc = "aborted"
    /\ MissingSettings = <<"ROBINHOOD_PASS", "SPREADSHEET_NAME">>
    /\ error = "Missing required environment variables: ROBINHOOD_PASS, SPREADSHEET_NAME"
    /\ ~login_called

\* C18 (as claimed): when no spreadsheet or brokerage call of the stage
\* fails, every record whose instrument data is complete has its row on the
\* worksheet, whatever is wrong with the other records of the batch, and a
\* stock whose instrument cannot be fetched has its row of error values.
C18_RecordFailuresAreIsolated ==
    /\ (outcome["stocks"].attempted /\ outcome["stocks"].fault = 0) =>
           \A i \in 1..Len(upstream.stocks) :
               HasRow(worksheets["stocks"], StockRow(upstream.stocks[i]))
    /\ (outcome["positions"].attempted /\ outcome["positions"].fault = 0) =>
           \A i \in 1..Len(upstream.options) :
               (/\ upstream.options[i].fetched
                /\ "strike_price" \in DOMAIN upstream.options[i].opt_data)
               => HasRow(worksheets["positions"], OptionRow(upstream.options[i]))
    /\ (outcome["trades"].attempted /\ outcome["trades"].fault = 0) =>
           \A i \in 1..Len(upstream.trades) :
               HasRow(worksheets["trades"], TradeRow(upstream.trades[i]))

\* C19 (as claimed): a stage that failed before it had written its table
\* leaves its worksheet as the run found it or showing a placeholder message.
C19_FailedStageLeavesPriorOrPlaceholder ==
    \A s \in StageSet :
        (outcome[s].attempted /\ outcome[s].failed /\ ~outcome[s].completed)
        => \/ worksheets[s] = before_run[s]
           \/ ShowsPlaceholder(worksheets[s])

\* C20: when a run in which no external call failed is followed by another
\* such run on the same upstream data, every worksheet has after the second
\* run the content it had after the first, the "Last Updated" cell apart.
C20_SecondRunSameContent ==
    (run >= 2 /\ main_pc = "done" /\ faults = 0) =>
        \A s \in StageSet : WithoutTimestamp(worksheets[s]) = WithoutTimestamp(before_run[s])

C20_Witness ==
    /\ run = 2 /\ main_pc = "done" /\ faults = 0
    /\ upstream.options = <<>>
    /\ ShowsPlaceholder(worksheets["positions"])
    /\ worksheets["positions"].prior
    /\ worksheets["balances"] # before_run["balances"]
    /\ worksheets["stocks"].cells[<<5, 1>>] = <<"Main", "AAPL", "300.00", "30.00%">>


(***************************************************************************)
(* Claims about sleep_with_jitter, checked under SpecJitter.               *)
(***************************************************************************)
\* C21: sleep_with_jitter(b) with b > 0 sleeps exactly once, for a duration
\* that is at least 0.1 s and at least 0.7 b and at most 1.3 b (or 0.1 s
\* where the floor is above 1.3 b), and returns that duration; with b <= 0
\* it returns 0 and does not sleep; nothing sleeps before the call.
C21_SleepWithJitter ==
    /\ call_result = <<>> => call_sleeps = <<>>
    /\ (call_result # <<>> /\ call_args.base_seconds > 0) =>
           /\ Len(call_sleeps) = 1
           /\ call_result.value = call_sleeps[1]
           /\ call_sleeps[1] >= 100000
           /\ call_sleeps[1] >= 700 * call_args.base_seconds
           /\ call_sleeps[1] <= Max(100000, 1300 * call_args.base_seconds)
    /\ (call_result # <<>> /\ call_args.base_seconds <= 0) =>
           /\ call_sleeps = <<>>
           /\ call_result.value = 0

C21_Witness ==
    /\ call_args.base_seconds = 140
    /\ call_result # <<>>
    /\ call_sleeps = <<100100>>


(***************************************************************************)
(* Claims about enrich_option_orders, checked under SpecEnrich.            *)
(***************************************************************************)
\* the order handed to enrich_option_orders and what became of it
EnrichedOrder == call_result.enriched_orders[1]

GivenLegs == Get(call_args.orders[1], "legs", <<>>)

\* the option types the legs name, in capitals, and their strike prices
LegTypes == {upper(GivenLegs[i].option_type) :
                i \in {j \in 1..Len(GivenLegs) : "option_type" \in DOMAIN GivenLegs[j]}}

LegStrikes == {GivenLegs[i].strike_price :
                  i \in {j \in 1..Len(GivenLegs) : "strike_price" \in DOMAIN GivenLegs[j]}}

\* C22: the strategy label of an enriched order follows the shape of its
\* legs: none -> "Unknown"; one -> "Single <type>"; two -> "<type> Vertical"
\* (one type, two strikes), "Straddle" (two types, one strike), "Strangle"
\* (two types, two strikes), else "2-Leg Strategy"; n >= 3 -> "n-Leg Strategy".
C22_StrategyFromLegShape ==
    call_result # <<>> =>
        LET n == Len(GivenLegs)
            s == EnrichedOrder.strategy
        IN  /\ n = 0 => s = "Unknown"
            /\ (n = 1 /\ LegTypes # {}) => \E t \in LegTypes : s = "Single " \o t
            /\ n = 2 =>
                  s = CASE Cardinality(LegTypes) = 1 /\ Cardinality(LegStrikes) = 2
                             -> (CHOOSE t \in LegTypes : TRUE) \o " Vertical"
                        [] Cardinality(LegTypes) = 2 /\ Cardinality(LegStrikes) = 1 -> "Straddle"
                        [] Cardinality(LegTypes) = 2 /\ Cardinality(LegStrikes) = 2 -> "Strangle"
                        [] OTHER -> "2-Leg Strategy"
            /\ n = 3 => s = "3-Leg Strategy"
            /\ n = 4 => s = "4-Leg Strategy"
            /\ n >= 3 => \E k \in 3..9 : n = k /\ s = Str(<<Digits[k + 1]>>) \o "-Leg Strategy"

C22_Witness ==
    /\ call_result # <<>>
    /\ Len(GivenLegs) = 2
    /\ Cardinality(LegTypes) = 2
    /\ Cardinality(LegStrikes) = 1
    /\ EnrichedOrder.strategy = "Straddle"
    /\ EnrichedOrder.option_types = "CALL/PUT"
    /\ EnrichedOrder.strikes = "$5.00"


(***************************************************************************)
(* Claims about get_last_50_trades, checked under SpecTrades.              *)
(***************************************************************************)
RecentTrades == call_result.recent_trades

\* the filled orders the brokerage holds for the given accounts, and the
\* filled crypto orders
FilledOrders ==
    LET Of(l) == {l[i] : i \in {j \in 1..Len(l) : l[j].state = "filled"}}
        ids == {call_args.account_ids[i] : i \in 1..Len(call_args.account_ids)}
    IN  UNION {Of(call_args.stock_orders[a]) \cup Of(call_args.option_orders[a]) : a \in ids}
            \cup Of(call_args.crypto_orders)

Returned23(o) ==
    \E i \in 1..Len(RecentTrades) :
        RecentTrades[i].date = o.created_at /\ RecentTrades[i].type = o.type

TradesCapped ==
    call_result # <<>> =>
    /\ Len(RecentTrades) <= TradeLimit
    /\ \A i \in 1..Len(RecentTrades) : RecentTrades[i].state = "filled"
    /\ \A i \in 1..(Len(RecentTrades) - 1) : RecentTrades[i].date >= RecentTrades[i + 1].date

\* C23 (as claimed): the result has at most 50 trades, all filled, newest
\* first, and no filled order of the given accounts that is newer than a
\* returned trade is missing from it.
C23_NewestFilledTrades ==
    call_result # <<>> =>
        /\ TradesCapped
        /\ \A o \in FilledOrders :
               Returned23(o) \/ \A i \in 1..Len(RecentTrades) : RecentTrades[i].date >= o.created_at


(***************************************************************************)
(* Further claims about a run of main(), checked under SpecPipeline.       *)
(***************************************************************************)
\* C24 (as claimed): a run that passed initialization, in which the brokerage
\* holds an option order of a configured account and no external call
\* failed, has at its end completed the options-orders stage and written
\* the "Options Orders" worksheet.
C24_OrdersStageWritesTables ==
    (main_pc = "done" /\ faults = 0 /\ upstream.orders # <<>>) =>
        /\ outcome["orders"].completed
        /\ ~worksheets["orders"].prior


(***************************************************************************)
(* Claims about the option positions of two accounts, checked under        *)
(* SpecPositions.                                                          *)
(***************************************************************************)
\* the open positions the brokerage returns for the main account and for an
\* IRA account that is set and is not the main account, whose data is available
ReportablePositions(account_type) ==
    LET options == IF account_type = "Main" THEN call_args.main_options
                   ELSE IF call_args.ira_account_id \in {"", call_args.main_account_id}
                   THEN <<>>
                   ELSE call_args.ira_options
    IN  {options[i] : i \in {j \in 1..Len(options) : options[j].option_id \notin call_args.no_data}}

RowsOf(account_type, option_id) ==
    {i \in 1..Len(call_result.rows) :
        /\ call_result.rows[i][1] = account_type
        /\ call_result.rows[i][2] = OptionInstrument(option_id).chain_symbol}

\* C25 (as claimed): every open option position of the main account and of a
\* distinct IRA account whose data is available has a row of its own on the
\* Option Positions sheet, also when both accounts hold the same contract.
C25_EveryPositionHasItsRow ==
    call_result # <<>> =>
        \A account_type \in {"Main", "IRA"} :
            \A p \in ReportablePositions(account_type) :
                Cardinality(RowsOf(account_type, p.option_id)) = 1


(***************************************************************************)
(* Further claims about the weekly aggregation.                            *)
(***************************************************************************)
\* the account types of the result, and the entry of a type for a week
\* (zero where the type has none)
EntryOf(items, week_key) ==
    IF \E j \in 1..Len(items) : items[j][1] = week_key
    THEN items[CHOOSE j \in 1..Len(items) : items[j][1] = week_key][2]
    ELSE WithNet(ZeroStats)

RECURSIVE SumOver(_, _, _)
\* the sum over the account types in types of field f of their entries for a week
SumOver(types, week_key, f) ==
    IF types = {} THEN 0
    ELSE LET a == CHOOSE a \in types : TRUE
         IN  EntryOf(weekly_result.account[a], week_key)[f] + SumOver(types \ {a}, week_key, f)

\* C27: for every week of the result, count, sold premium, bought-back
\* premium and net premium of the overall entry are the sums of those of the
\* account types' entries for that week, and no account type has a week
\* the overall result lacks.
C27_OverallIsSumOfAccountTypes ==
    Calculated =>
        /\ \A j \in 1..Len(weekly_result.weekly) :
            LET week_key == weekly_result.weekly[j][1]
                st == weekly_result.weekly[j][2]
                types == DOMAIN weekly_result.account
            IN  /\ st.count = SumOver(types, week_key, "count")
                /\ st.premium = SumOver(types, week_key, "premium")
                /\ st.btc_premium = SumOver(types, week_key, "btc_premium")
                /\ st.net_premium = SumOver(types, week_key, "net_premium")
        /\ \A a \in DOMAIN weekly_result.account :
            \A j \in 1..Len(weekly_result.account[a]) :
                \E k \in 1..Len(weekly_result.weekly) :
                    weekly_result.weekly[k][1] = weekly_result.account[a][j][1]

C27_Witness ==
    /\ Calculated
    /\ DOMAIN weekly_result.account = {"Standard", "Unknown"}
    /\ Len(weekly_result.weekly) = 1
    /\ weekly_result.weekly[1][2].count = 2
    /\ weekly_result.weekly[1][2].premium = 15000
    /\ weekly_result.account["Unknown"][1][2].premium = 10000
    /\ weekly_result.account["Standard"][1][2].premium = 5000

\* C28 (as claimed): every week entry of the result, overall and per account
\* type, counts at least one order, and its count is the number of orders
\* whose premium was added to its sold or bought-back total.
C28_CountsContributingOrders ==
    Calculated =>
        /\ \A j \in 1..Len(weekly_result.weekly) :
            /\ weekly_result.weekly[j][2].count >= 1
            /\ weekly_result.weekly[j][2].count =
                   Cardinality({i \in 1..Len(orders) :
                                   /\ Contributing(orders[i])
                                   /\ WeekOf(orders[i]) = weekly_result.weekly[j][1]})
        /\ \A a \in DOMAIN weekly_result.account :
            \A j \in 1..Len(weekly_result.account[a]) :
                /\ weekly_result.account[a][j][2].count >= 1
                /\ weekly_result.account[a][j][2].count =
                       Cardinality({i \in 1..Len(orders) :
                                       /\ Contributing(orders[i])
                                       /\ TypeOf(orders[i]) = a
                                       /\ WeekOf(orders[i]) = weekly_result.account[a][j][1]})


(***************************************************************************)
(* Claims about the account types of the aggregation, checked under        *)
(* SpecAccounts.                                                           *)
(***************************************************************************)
\* the account type the configuration gives an account
ConfiguredType(account_id) ==
    get_account_type_mapping(environ.MAIN_ACCOUNT, environ.IRA_ACCOUNT,
                             environ.THIRD_ACCOUNT)[account_id]

\* C26 (as claimed): a contributing order of the configured primary account
\* is counted in the week entry of account type "Standard", one of the
\* configured IRA account in that of "IRA", one of the configured third
\* account in that of "Third", whatever the configured identifiers are.
C26_ConfiguredAccountTypes ==
    Calculated =>
        \A i \in 1..Len(orders) :
            Contributing(orders[i]) =>
                LET a == ConfiguredType(orders[i].account_id)
                IN  /\ a \in DOMAIN weekly_result.account
                    /\ EntryOf(weekly_result.account[a], WeekOf(orders[i])).count =
                           Cardinality({k \in 1..Len(orders) :
                                           /\ Contributing(orders[k])
                                           /\ ConfiguredType(orders[k].account_id) = a
                                           /\ WeekOf(orders[k]) = WeekOf(orders[i])})


(***************************************************************************)
(* Claims about the layout of the "Options Orders" worksheet, checked      *)
(* under SpecLayout.                                                       *)
(***************************************************************************)
WriteOf(region) ==
    call_result.writes[CHOOSE i \in 1..Len(call_result.writes) :
                           call_result.writes[i].region = region]

\* C29: whatever the number of orders, the history table ends at or before
\* row 23, the weekly tables of Standard, IRA and Third cover rows 25-34,
\* 36-45 and 47-56, and no two of the four ranges share a row.
C29_TablesDoNotOverlap ==
    (call_result # <<>> /\ call_args.orders # <<>>) =>
        /\ WriteOf("history").first = 1
        /\ WriteOf("history").last <= 23
        /\ WriteOf("Standard").first = 25 /\ WriteOf("Standard").last = 34
        /\ WriteOf("IRA").first = 36 /\ WriteOf("IRA").last = 45
        /\ WriteOf("Third").first = 47 /\ WriteOf("Third").last = 56
        /\ \A i, j \in 1..Len(call_result.writes) :
               i # j => \/ call_result.writes[i].last < call_result.writes[j].first
                        \/ call_result.writes[j].last < call_result.writes[i].first

C29_Witness ==
    /\ call_result # <<>>
    /\ Len(SelectSeq(call_args.orders, LAMBDA o : o.state # "cancelled")) > 20
    /\ WriteOf("history").last = 23
    /\ WriteOf("Standard").first = 25


(***************************************************************************)
(* Claims about get_account_balances, checked under SpecBalances.          *)
(***************************************************************************)
RECURSIVE SumField(_, _, _)
\* the sum of field f over the entries of by_account named in types
SumField(by_account, types, f) ==
    IF types = {} THEN 0
    ELSE LET t == CHOOSE t \in types : TRUE
         IN  by_account[t][f] + SumField(by_account, types \ {t}, f)

\* the account types whose two fetches both answered
FetchedTypes ==
    {account_types(call_args)[i].account_type :
        i \in {j \in 1..Len(account_types(call_args)) :
                  call_args.replies[account_types(call_args)[j].account_number] = "ok"}}

\* C30: in the snapshot returned, total_equity is the sum of the equity of
\* all entries of by_account, Crypto included; total_cash, the options
\* collateral and the unsettled funds are the sums over the entries of the
\* brokerage accounts; available_cash = total_cash - collateral; and the
\* brokerage accounts in by_account are those whose fetch did not fail.
C30_BalancesAddUp ==
    call_result # <<>> =>
        LET by_account == call_result.by_account
            brokerage == DOMAIN by_account \ {"Crypto"}
        IN  /\ call_result.total_equity = SumField(by_account, DOMAIN by_account, "equity")
            /\ call_result.total_cash = SumField(by_account, brokerage, "cash")
            /\ call_result.cash_for_options_collateral =
                   SumField(by_account, brokerage, "options_collateral")
            /\ call_result.unsettled_funds = SumField(by_account, brokerage, "unsettled_funds")
            /\ call_result.available_cash =
                   call_result.total_cash - call_result.cash_for_options_collateral
            /\ brokerage = FetchedTypes

C30_Witness ==
    /\ call_result # <<>>
    /\ call_args.replies = [n \in {"5QU52702", "519517908", "410351639"} |->
                               IF n = "519517908" THEN "cash is null" ELSE "ok"]
    /\ call_args.crypto = [kind |-> "amount", equity |-> 2500]
    /\ DOMAIN call_result.by_account = {"Standard", "Third", "Crypto"}
    /\ call_result.total_equity = 107000
    /\ call_result.available_cash = 34000

====
